---- MODULE Spec2Model ----
(***************************************************************************)
(* Model of munazzim's day scheduler (src/src/munazzim/scheduler.py).      *)
(*                                                                         *)
(* Time is counted in ticks of ten minutes.  A time of day is a tick in    *)
(* 0..DayLen-1; a timestamp (datetime) is the tick count since midnight of *)
(* the plan date, so datetime.combine(anchor_date, t) is t itself and a    *)
(* timestamp of the next day is >= DayLen.                                 *)
(*                                                                         *)
(* Python objects that are shared by reference (events) live in `heap`, a  *)
(* sequence of event records indexed by address; the events of the         *)
(* template are the addresses in template.events, and every copy the       *)
(* scheduler makes (dataclasses.replace, PrayerEvent(...)) is a fresh      *)
(* address.  Optional values (time | None) are sets of at most one value.  *)
(***************************************************************************)
EXTENDS Integers, Sequences, FiniteSets, TLC

VARIABLES
    template,       \* DayTemplate: [start_time, events (addresses)]
    schedule,       \* PrayerSchedule: label -> time of day
    durations,      \* config.prayer_settings.durations: label -> timedelta
    heap,           \* event objects by address
    cursor,         \* TimeCursor.position
    plan,           \* DayPlan.items: sequence of [event (address), start, end]
    prayer_slots,   \* list[PrayerSlot] of the running call
    prayer_index,   \* index of the next pending slot (0-based as in the code)
    ev,             \* number of template events already consumed by the main loop
    remaining,      \* local `remaining` of the relative loop
    pc,             \* position in the pipeline validate -> build_plan
    issues,         \* hard issues found by validate (non-empty: ValidationError)
    warnings,       \* soft findings collected by validate
    outcome,        \* how validate ended: [kind (raise or return), list]
    results,        \* plans returned so far (their items; events by address)
    raw,            \* the text given to QalibParser.parse, as its lines
    lineno,         \* number of lines of raw already consumed
    builder,        \* the _TemplateBuilder of the running parse
    parsed,         \* the templates built so far: t, then parse(render(t))
    qerror,         \* the exception that ended the parse, "" for none
    qpc,            \* position in parse -> render -> parse: the branch consume
                    \* takes for the line at hand, build, built, done or failed
    cache,          \* PrayerCache._cache: the dict, as its (key, record) pairs
    max_days,       \* PrayerCache.max_days
    call,           \* the last call of put or get on the cache, with its result
    thread,         \* per thread calling put: [pc, snapshot, future]
    executor,       \* PrayerCache._executor: the jobs submitted, in order, each
                    \* [payload, done]; its one worker runs them first to last
    disk,           \* the cache file: the set holding its text, empty for no file
    pending         \* PrayerCache._pending: the job it refers to, 0 for None

vars == <<template, schedule, durations, heap, cursor, plan, prayer_slots,
          prayer_index, ev, remaining, pc, issues, warnings, outcome, results,
          raw, lineno, builder, parsed, qerror, qpc, cache, max_days, call,
          thread, executor, disk, pending>>

\* the variables of validate and build_plan, those of the parser and those
\* of the prayer cache
Pipeline == <<template, schedule, durations, heap, cursor, plan, prayer_slots,
              prayer_index, ev, remaining, pc, issues, warnings, outcome, results>>

Qalib == <<raw, lineno, builder, parsed, qerror, qpc>>

\* the threads in put, the write queue and the file
Writer == <<thread, executor, disk, pending>>

Store == <<cache, max_days, call, thread, executor, disk, pending>>

----------------------------------------------------------------------------
(* Bounds and constants *)

MaxEvents == 2

\* events per template in the runs of validate alone
MaxChecked == 3

DayLen == 144

PrayerLabels == <<"Fajr", "Dhuhr", "Asr", "Maghrib", "Isha">>

LabelSet == {PrayerLabels[k] : k \in 1..5}

EventNames == <<"Warmup", "Lecture", "Study", "Read">>

\* str.strip().lower() on the labels that occur
Lower(s) ==
    CASE s \in {"Fajr", "fajr"} -> "fajr"
      [] s \in {"Dhuhr", "dhuhr"} -> "dhuhr"
      [] s \in {"Asr", "asr"} -> "asr"
      [] s \in {"Maghrib", "maghrib"} -> "maghrib"
      [] s \in {"Isha", "isha"} -> "isha"
      [] s \in {"Duhr", "duhr"} -> "duhr"
      [] s \in {"Sunrise", "sunrise"} -> "sunrise"
      [] OTHER -> s

Some(opt) == CHOOSE x \in opt : TRUE

----------------------------------------------------------------------------
(* Data model (models.py) *)

NoRef == [tag |-> "none", time |-> 0, prayer |-> "", ticks |-> 0]

TimeRef(t) == [tag |-> "time", time |-> t, prayer |-> "", ticks |-> 0]

PrayerRef(p) == [tag |-> "prayer", time |-> 0, prayer |-> p, ticks |-> 0]

OffsetRef(p, d) == [tag |-> "offset", time |-> 0, prayer |-> p, ticks |-> d]

Relative(d) ==
    [kind |-> "relative", name |-> "", duration |-> d, anchor |-> {},
     prayer |-> "", start_ref |-> NoRef, end_ref |-> NoRef]

Fixed(a, d) ==
    [kind |-> "fixed", name |-> "", duration |-> d, anchor |-> {a},
     prayer |-> "", start_ref |-> NoRef, end_ref |-> NoRef]

Prayer(p, a, d) ==
    [kind |-> "prayer", name |-> "", duration |-> d, anchor |-> a,
     prayer |-> p, start_ref |-> NoRef, end_ref |-> NoRef]

PrayerBound(s, e, d) ==
    [kind |-> "prayer_bound", name |-> "", duration |-> d, anchor |-> {},
     prayer |-> "", start_ref |-> s, end_ref |-> e]

PrayerSlot(label, start, duration) ==
    [label |-> label, start |-> start, duration |-> duration]

ScheduledEvent(addr, start, end) == [event |-> addr, start |-> start, end |-> end]

----------------------------------------------------------------------------
(* Inputs *)

\* the first schedule is that of tests/test_scheduler.py (fajr 05:00), the
\* second packs the prayers half an hour apart so that short events meet
\* them; the third is one PrayerSchedule accepts although its times do not
\* increase from Fajr to Isha (an Isha whose clock time lies before Fajr, as
\* when Isha falls past midnight); sunrise is optional
Schedules ==
    { [Fajr |-> 30, Dhuhr |-> 57, Asr |-> 93, Maghrib |-> 114, Isha |-> 126, sunrise |-> {}],
      [Fajr |-> 30, Dhuhr |-> 33, Asr |-> 36, Maghrib |-> 39, Isha |-> 42, sunrise |-> {31}],
      [Fajr |-> 36, Dhuhr |-> 57, Asr |-> 93, Maghrib |-> 114, Isha |-> 31, sunrise |-> {}] }

DurationSettings == { [p \in LabelSet |-> 1], [p \in LabelSet |-> 2] }

StartTimes == {28, 30, 32}

\* the largest offset of a reference: three digits of minutes, 99 ticks
MaxOffset == 99

EventChoices ==
    {Relative(d) : d \in {0, 3, 6}}
    \cup {Fixed(a, d) : a \in {29, 32}, d \in {-1, 3}}
    \cup {Prayer(p, a, d) : p \in {"Fajr", "Dhuhr"}, a \in {{}, {31}}, d \in {0, 2}}
    \cup {Prayer("isha", {}, 2), Prayer("", {}, 2)}
    \cup {PrayerBound(NoRef, PrayerRef("Dhuhr"), 0),
          PrayerBound(PrayerRef("Fajr"), NoRef, 2),
          PrayerBound(OffsetRef("Dhuhr", -2), PrayerRef("Fajr"), 0),
          PrayerBound(PrayerRef("Sunrise"), TimeRef(34), 0),
          PrayerBound(TimeRef(29), OffsetRef("Duhr", 1), 0),
          PrayerBound(OffsetRef("Isha", MaxOffset), PrayerRef("Fajr"), 0),
          PrayerBound(OffsetRef("Fajr", -MaxOffset), PrayerRef("Dhuhr"), 0)}

Templates ==
    UNION { [1..n -> EventChoices] : n \in 0..MaxEvents }

\* the reduced inputs of the termination and the two-call runs: one event of
\* every kind and every irregularity (non-positive duration, backward anchor,
\* unknown or wrapping reference, unknown prayer)
LiveChoices ==
    {Relative(0), Relative(6), Fixed(29, -1), Fixed(32, 3),
     Prayer("Fajr", {}, 2), Prayer("Dhuhr", {31}, 0), Prayer("", {}, 2),
     PrayerBound(NoRef, PrayerRef("Dhuhr"), 0),
     PrayerBound(OffsetRef("Dhuhr", -2), PrayerRef("Fajr"), 0),
     PrayerBound(PrayerRef("Sunrise"), TimeRef(34), 0)}

LiveTemplates ==
    UNION { [1..n -> LiveChoices] : n \in 0..MaxEvents }

----------------------------------------------------------------------------
(* Scheduler state threaded through the helpers of build_plan *)

Local ==
    [cursor |-> cursor, plan |-> plan, slots |-> prayer_slots,
     idx |-> prayer_index, heap |-> heap, err |-> FALSE]

\* _prayer_slots keeping the slots of an earlier call instead of building
\* fresh ones
PrayerSlotsKept(sch, dur) ==
    IF prayer_slots # <<>> THEN prayer_slots
    ELSE [k \in 1..5 |-> PrayerSlot(PrayerLabels[k], sch[PrayerLabels[k]], dur[PrayerLabels[k]])]

\* Scheduler._prayer_slots
PrayerSlots(sch, dur) ==
    [k \in 1..5 |-> PrayerSlot(PrayerLabels[k], sch[PrayerLabels[k]], dur[PrayerLabels[k]])]

\* prayer_time_map.get(key): the set holding the time of the prayer, empty for None
PrayerTime(key, sch) ==
    LET k == IF key = "duhr" THEN "dhuhr" ELSE key
    IN {sch[p] : p \in {q \in LabelSet : Lower(q) = k}}

\* an offset the token pattern accepts; a longer one is read as the name of
\* a prayer, which no prayer has
OffsetFits(ref) == ref.ticks <= MaxOffset /\ -ref.ticks <= MaxOffset

\* resolve_ref: the set holding the resolved timestamp, empty for None
ResolveRef(ref, sch) ==
    CASE ref.tag = "none" -> {}
      [] ref.tag = "time" -> {ref.time}
      [] ref.tag = "offset" ->
            IF OffsetFits(ref)
            THEN {t + ref.ticks : t \in PrayerTime(Lower(ref.prayer), sch)} ELSE {}
      [] ref.tag = "prayer" -> PrayerTime(Lower(ref.prayer), sch)

\* peek_prayer: the set holding the next pending slot, empty for None
PeekPrayer(s) == IF s.idx < Len(s.slots) THEN {s.slots[s.idx + 1]} ELSE {}

PrayerName(label) ==
    CASE label = "Fajr" -> "Fajr Prayer" [] label = "Dhuhr" -> "Dhuhr Prayer"
      [] label = "Asr" -> "Asr Prayer" [] label = "Maghrib" -> "Maghrib Prayer"
      [] label = "Isha" -> "Isha Prayer"

\* schedule_prayer without cursor.advance: the cursor stays at slot.start
SchedulePrayerNoAdvance(s, slot) ==
    LET event == [Prayer(slot.label, {}, slot.duration) EXCEPT !.name = PrayerName(slot.label)]
        addr == Len(s.heap) + 1
        start == slot.start
        end == slot.start + event.duration
    IN [s EXCEPT !.cursor = start,
                 !.heap = Append(@, event),
                 !.plan = Append(@, ScheduledEvent(addr, start, end))]

\* schedule_prayer without cursor.position = slot.start: the prayer is placed
\* where the cursor stands
SchedulePrayerAtCursor(s, slot) ==
    LET event == [Prayer(slot.label, {}, slot.duration) EXCEPT !.name = PrayerName(slot.label)]
        addr == Len(s.heap) + 1
        start == s.cursor
        end == s.cursor + event.duration
    IN [s EXCEPT !.heap = Append(@, event),
                 !.cursor = end,
                 !.plan = Append(@, ScheduledEvent(addr, start, end))]

\* schedule_prayer(slot), with TimeCursor.advance and DayPlan.add
SchedulePrayer(s, slot) ==
    LET event == [Prayer(slot.label, {}, slot.duration) EXCEPT !.name = PrayerName(slot.label)]
        addr == Len(s.heap) + 1
        start == slot.start
        end == slot.start + event.duration
    IN [s EXCEPT !.heap = Append(@, event),
                 !.cursor = end,
                 !.plan = Append(@, ScheduledEvent(addr, start, end))]

\* pop_prayer with its bounds check off by one
PopAndScheduleOffByOne(s) ==
    IF s.idx >= Len(s.slots) - 1
    THEN [s EXCEPT !.err = TRUE]
    ELSE SchedulePrayer([s EXCEPT !.idx = @ + 1], s.slots[s.idx + 1])

\* schedule_prayer(pop_prayer()); pop_prayer() is None on an empty queue and
\* schedule_prayer(None) raises AttributeError
PopAndSchedule(s) ==
    IF s.idx >= Len(s.slots)
    THEN [s EXCEPT !.err = TRUE]
    ELSE SchedulePrayer([s EXCEPT !.idx = @ + 1], s.slots[s.idx + 1])

\* flush_prayers(before); each round continues from the one state that
\* schedule_prayer(pop_prayer()) leaves
RECURSIVE FlushPrayers(_, _)
FlushPrayers(s, before) ==
    IF s.err \/ PeekPrayer(s) = {} \/ Some(PeekPrayer(s)).start > before
    THEN s
    ELSE CHOOSE r \in {FlushPrayers(popped, before) : popped \in {PopAndSchedule(s)}} : TRUE

RECURSIVE PushFrom(_, _, _)
PushFrom(slots, k, boundary) ==
    IF k > Len(slots) THEN slots
    ELSE IF slots[k].start < boundary
         THEN PushFrom([slots EXCEPT ![k].start = boundary], k + 1, boundary)
         ELSE slots

PushPrayersAfter(s, boundary) ==
    [s EXCEPT !.slots = PushFrom(s.slots, s.idx + 1, boundary)]

Max(S) == CHOOSE x \in S : \A y \in S : y <= x

\* positions of the plan holding a PrayerEvent whose prayer is target_label
ScheduledPrayers(s, target_label) ==
    {k \in 1..Len(s.plan) :
        /\ s.heap[s.plan[k].event].kind = "prayer"
        /\ Lower(s.heap[s.plan[k].event].prayer) = target_label}

\* the in-place update without the write of the entry's end
CorrectScheduledKeepEnd(s, event, k) ==
    LET item == s.plan[k]
    IN IF event.duration > 0
       THEN [s EXCEPT !.heap[item.event].duration = event.duration]
       ELSE s

\* the in-place update taking the cursor to the end of the corrected entry
CorrectScheduledMovingCursor(s, event, k) ==
    LET item == s.plan[k]
        start == IF event.anchor # {} THEN Some(event.anchor) ELSE item.start
    IN IF event.duration > 0
       THEN [s EXCEPT !.plan[k] = ScheduledEvent(item.event, start, start + event.duration),
                      !.heap[item.event].duration = event.duration,
                      !.cursor = start + event.duration]
       ELSE [s EXCEPT !.plan[k].start = start]

\* _schedule_event, PrayerEvent branch: the prayer is already in the plan
CorrectScheduled(s, event, k) ==
    LET item == s.plan[k]
        start == IF event.anchor # {} THEN Some(event.anchor) ELSE item.start
    IN IF event.duration > 0
       THEN [s EXCEPT !.plan[k] = ScheduledEvent(item.event, start, start + event.duration),
                      !.heap[item.event].duration = event.duration]
       ELSE [s EXCEPT !.plan[k].start = start]

\* _schedule_event, PrayerEvent branch: the override of the entry just placed
OverrideLast(s, event) ==
    LET found == ScheduledPrayers(s, Lower(event.prayer))
        k == Max(found)
    IN IF found # {} /\ event.duration > 0
       THEN [s EXCEPT !.plan[k].end = s.plan[k].start + event.duration,
                      !.heap[s.plan[k].event].duration = event.duration]
       ELSE s

\* _schedule_event, PrayerEvent branch: the dequeue loop
RECURSIVE DequeueUntil(_, _)

\* the dequeue loop popping the slots before the target without
\* schedule_prayer
DequeueUntilDropping(s, event) ==
    IF s.err \/ PeekPrayer(s) = {} THEN s
    ELSE IF Lower(Some(PeekPrayer(s)).label) # Lower(event.prayer)
    THEN CHOOSE r \in {DequeueUntil(popped, event) : popped \in {[s EXCEPT !.idx = @ + 1]}} : TRUE
    ELSE LET k == s.idx + 1
             anchored == IF event.anchor # {}
                         THEN [s.slots[k] EXCEPT !.start = Some(event.anchor)]
                         ELSE s.slots[k]
             slot == IF event.duration > 0
                     THEN [anchored EXCEPT !.duration = event.duration]
                     ELSE anchored
         IN OverrideLast(
                SchedulePrayer([s EXCEPT !.idx = @ + 1, !.slots[k] = slot], slot),
                event)

DequeueUntil(s, event) ==
    IF s.err \/ PeekPrayer(s) = {} THEN s
    ELSE IF Lower(Some(PeekPrayer(s)).label) # Lower(event.prayer)
    THEN CHOOSE r \in {DequeueUntil(popped, event) : popped \in {PopAndSchedule(s)}} : TRUE
    ELSE LET k == s.idx + 1
             anchored == IF event.anchor # {}
                         THEN [s.slots[k] EXCEPT !.start = Some(event.anchor)]
                         ELSE s.slots[k]
             slot == IF event.duration > 0
                     THEN [anchored EXCEPT !.duration = event.duration]
                     ELSE anchored
         IN OverrideLast(
                SchedulePrayer([s EXCEPT !.idx = @ + 1, !.slots[k] = slot], slot),
                event)

\* _schedule_event, PrayerEvent branch
SchedulePrayerEvent(s, event) ==
    LET found == ScheduledPrayers(s, Lower(event.prayer))
    IN IF found # {}
       THEN CorrectScheduled(s, event, Max(found))
       ELSE DequeueUntil(s, event)

\* cursor.advance(duration) and plan.add of the event at addr itself, its
\* duration assigned in place instead of dataclasses.replace
PlaceInPlace(s, addr, duration) ==
    LET start == s.cursor
        end == s.cursor + duration
    IN [s EXCEPT !.cursor = end,
                 !.heap[addr].duration = end - start,
                 !.plan = Append(@, ScheduledEvent(addr, start, end))]

\* cursor.advance(duration) and plan.add of a copy of the event at addr with
\* the duration end - start (dataclasses.replace)
PlaceCopy(s, addr, duration) ==
    LET start == s.cursor
        end == s.cursor + duration
    IN [s EXCEPT !.cursor = end,
                 !.heap = Append(@, [s.heap[addr] EXCEPT !.duration = end - start]),
                 !.plan = Append(@, ScheduledEvent(Len(s.heap) + 1, start, end))]

\* _schedule_event, FixedEvent branch
ScheduleFixedEvent(s, addr) ==
    LET event == s.heap[addr]
        jumped == [s EXCEPT !.cursor = Some(event.anchor)]
        placed == PlaceCopy(jumped, addr, event.duration)
    IN PushPrayersAfter(placed, placed.cursor)

\* the PrayerBoundEvent branch leaving the cursor where it is when start_ref
\* is explicit
SchedulePrayerBoundEventInPlace(s, addr, sch) ==
    LET event == s.heap[addr]
        start_dt == IF event.start_ref.tag # "none"
                    THEN ResolveRef(event.start_ref, sch) ELSE {s.cursor}
        end_ref_dt == IF event.end_ref.tag # "none"
                      THEN ResolveRef(event.end_ref, sch) ELSE {}
    IN IF start_dt = {} THEN s
       ELSE IF end_ref_dt = {} /\ event.duration <= 0 THEN s
       ELSE LET start == Some(start_dt)
                end0 == IF end_ref_dt = {} THEN start + event.duration ELSE Some(end_ref_dt)
                end_dt == IF end0 <= start THEN end0 + DayLen ELSE end0
                placed == PlaceCopy(s, addr, end_dt - start)
            IN PushPrayersAfter(placed, placed.cursor)

\* the PrayerBoundEvent branch keeping an end at or before the start on the
\* same day
SchedulePrayerBoundEventSameDay(s, addr, sch) ==
    LET event == s.heap[addr]
        start_dt == IF event.start_ref.tag # "none"
                    THEN ResolveRef(event.start_ref, sch) ELSE {s.cursor}
        end_ref_dt == IF event.end_ref.tag # "none"
                      THEN ResolveRef(event.end_ref, sch) ELSE {}
    IN IF start_dt = {} THEN s
       ELSE IF end_ref_dt = {} /\ event.duration <= 0 THEN s
       ELSE LET start == Some(start_dt)
                end_dt == IF end_ref_dt = {} THEN start + event.duration ELSE Some(end_ref_dt)
                moved == IF event.start_ref.tag # "none"
                         THEN [s EXCEPT !.cursor = start] ELSE s
                placed == PlaceCopy(moved, addr, end_dt - start)
            IN PushPrayersAfter(placed, placed.cursor)

\* _schedule_event, PrayerBoundEvent branch
SchedulePrayerBoundEvent(s, addr, sch) ==
    LET event == s.heap[addr]
        start_dt == IF event.start_ref.tag # "none"
                    THEN ResolveRef(event.start_ref, sch) ELSE {s.cursor}
        end_ref_dt == IF event.end_ref.tag # "none"
                      THEN ResolveRef(event.end_ref, sch) ELSE {}
    IN IF start_dt = {} THEN s
       ELSE IF end_ref_dt = {} /\ event.duration <= 0 THEN s
       ELSE LET start == Some(start_dt)
                end0 == IF end_ref_dt = {} THEN start + event.duration ELSE Some(end_ref_dt)
                end_dt == IF end0 <= start THEN end0 + DayLen ELSE end0
                moved == IF event.start_ref.tag # "none"
                         THEN [s EXCEPT !.cursor = start] ELSE s
                placed == PlaceCopy(moved, addr, end_dt - start)
            IN PushPrayersAfter(placed, placed.cursor)

\* the relative loop placing all that remains in one chunk, prayer or not
RelativeIterationUnsplit(s, addr, left) ==
    LET next_slot == PeekPrayer(s)
    IN IF next_slot # {} /\ Some(next_slot).start - s.cursor <= 0
       THEN [s |-> PopAndSchedule(s), remaining |-> left]
       ELSE [s |-> PlaceCopy(s, addr, left), remaining |-> 0]

\* _schedule_event, one iteration of the relative loop (`left` is `remaining`);
\* the result carries the new value of `remaining`
RelativeIteration(s, addr, left) ==
    LET next_slot == PeekPrayer(s)
    IN IF next_slot # {} /\ Some(next_slot).start < s.cursor
       THEN [s |-> PopAndSchedule(s), remaining |-> left]
       ELSE IF next_slot # {} /\ Some(next_slot).start - s.cursor <= 0
       THEN [s |-> PopAndSchedule(s), remaining |-> left]
       ELSE LET chunk == IF next_slot # {} /\ Some(next_slot).start - s.cursor < left
                         THEN Some(next_slot).start - s.cursor
                         ELSE left
                placed == PlaceCopy(s, addr, chunk)
            IN [s |-> IF next_slot # {} /\ chunk = Some(next_slot).start - s.cursor
                      THEN PopAndSchedule(placed) ELSE placed,
                remaining |-> left - chunk]

\* build_plan without the loop that adds the remaining prayers
ScheduleRemainingDropped(s) == s

\* build_plan, the loop that adds the remaining prayers at the end
RECURSIVE ScheduleRemaining(_)
ScheduleRemaining(s) ==
    IF s.err \/ s.idx >= Len(s.slots) THEN s
    ELSE CHOOSE r \in {ScheduleRemaining(popped) : popped \in {PopAndSchedule(s)}} : TRUE

----------------------------------------------------------------------------
(* Validator (validation.py): the issues and warnings of validate, as     *)
(* sequences of [check, event, amount] in the order they are appended     *)

MinWakeBuffer == 2

Issue(check, name, amount) == [check |-> check, event |-> name, amount |-> amount]

\* TemplateValidator._resolve_ref: getattr(prayers, key, None)
ValidatorResolveRef(ref, sch) ==
    LET key == IF Lower(ref.prayer) = "duhr" THEN "dhuhr" ELSE Lower(ref.prayer)
        base == IF key = "sunrise" THEN sch.sunrise
                ELSE {sch[p] : p \in {q \in LabelSet : Lower(q) = key}}
    IN CASE ref.tag = "none" -> {}
         [] ref.tag = "time" -> {ref.time}
         [] ref.tag = "offset" -> IF OffsetFits(ref) THEN {t + ref.ticks : t \in base} ELSE {}
         [] ref.tag = "prayer" -> base

\* _validate_wake_time rejecting also the wake time exactly 20 minutes before
\* Fajr
WakeIssuesAtBuffer(tpl, sch) ==
    IF tpl.start_time >= sch["Fajr"] - MinWakeBuffer
    THEN <<Issue("wake", "", 0)>> ELSE <<>>

\* _validate_wake_time
WakeIssues(tpl, sch) ==
    IF tpl.start_time > sch["Fajr"] - MinWakeBuffer
    THEN <<Issue("wake", "", 0)>> ELSE <<>>

\* _resolve_prayer_bound_duration keeping an end at or before the start on
\* the same day
ResolvePrayerBoundDurationSameDay(event, sch, fallback_start) ==
    LET resolved == ValidatorResolveRef(event.start_ref, sch)
        start_dt == IF resolved = {} THEN fallback_start ELSE Some(resolved)
        end_ref_dt == IF event.end_ref.tag # "none"
                      THEN ValidatorResolveRef(event.end_ref, sch) ELSE {}
    IN IF end_ref_dt = {} /\ event.duration <= 0 THEN {}
       ELSE LET end0 == IF end_ref_dt = {} THEN start_dt + event.duration ELSE Some(end_ref_dt)
                end_dt == end0
            IN {end_dt - start_dt}

\* _resolve_prayer_bound_duration: the set holding the duration, empty for None
ResolvePrayerBoundDuration(event, sch, fallback_start) ==
    LET resolved == ValidatorResolveRef(event.start_ref, sch)
        start_dt == IF resolved = {} THEN fallback_start ELSE Some(resolved)
        end_ref_dt == IF event.end_ref.tag # "none"
                      THEN ValidatorResolveRef(event.end_ref, sch) ELSE {}
    IN IF end_ref_dt = {} /\ event.duration <= 0 THEN {}
       ELSE LET end0 == IF end_ref_dt = {} THEN start_dt + event.duration ELSE Some(end_ref_dt)
                end_dt == IF end0 <= start_dt THEN end0 + DayLen ELSE end0
            IN {end_dt - start_dt}

\* the body of the loop of _validate_prayer_bounds accepting an anchor
\* exactly at the next prayer's time
PrayerBoundIssuesOfStrictNext(event, tpl, sch) ==
    LET key == IF Lower(event.prayer) = "duhr" THEN "dhuhr" ELSE Lower(event.prayer)
        idxs == {k \in 1..5 : Lower(PrayerLabels[k]) = key}
        base == {sch[PrayerLabels[k]] : k \in idxs}
        next_time == {sch[PrayerLabels[k + 1]] : k \in {j \in idxs : j + 1 <= 5}}
        anchor_dt == Some(event.anchor)
        dur == ResolvePrayerBoundDuration(event, sch, tpl.start_time)
    IN IF event.kind = "prayer" /\ event.anchor # {}
       THEN IF base = {} THEN <<>>
            ELSE (IF anchor_dt < Some(base)
                  THEN <<Issue("prayer_before", event.prayer, 0)>> ELSE <<>>)
              \o (IF next_time # {} /\ anchor_dt > Some(next_time)
                  THEN <<Issue("prayer_next", event.prayer, 0)>> ELSE <<>>)
              \o (IF next_time # {} /\ event.duration # 0
                     /\ anchor_dt + event.duration > Some(next_time)
                  THEN <<Issue("prayer_exceeds", event.prayer, 0)>> ELSE <<>>)
       ELSE IF event.kind = "prayer_bound" /\ event.end_ref.tag # "none"
                /\ dur # {} /\ Some(dur) <= 0
       THEN <<Issue("range", event.name, 0)>>
       ELSE <<>>

\* _validate_prayer_bounds, the body of the loop for one event
PrayerBoundIssuesOf(event, tpl, sch) ==
    LET key == IF Lower(event.prayer) = "duhr" THEN "dhuhr" ELSE Lower(event.prayer)
        idxs == {k \in 1..5 : Lower(PrayerLabels[k]) = key}
        base == {sch[PrayerLabels[k]] : k \in idxs}
        next_time == {sch[PrayerLabels[k + 1]] : k \in {j \in idxs : j + 1 <= 5}}
        anchor_dt == Some(event.anchor)
        dur == ResolvePrayerBoundDuration(event, sch, tpl.start_time)
    IN IF event.kind = "prayer" /\ event.anchor # {}
       THEN IF base = {} THEN <<>>
            ELSE (IF anchor_dt < Some(base)
                  THEN <<Issue("prayer_before", event.prayer, 0)>> ELSE <<>>)
              \o (IF next_time # {} /\ anchor_dt >= Some(next_time)
                  THEN <<Issue("prayer_next", event.prayer, 0)>> ELSE <<>>)
              \o (IF next_time # {} /\ event.duration # 0
                     /\ anchor_dt + event.duration > Some(next_time)
                  THEN <<Issue("prayer_exceeds", event.prayer, 0)>> ELSE <<>>)
       ELSE IF event.kind = "prayer_bound" /\ event.end_ref.tag # "none"
                /\ dur # {} /\ Some(dur) <= 0
       THEN <<Issue("range", event.name, 0)>>
       ELSE <<>>

RECURSIVE PrayerBoundIssues(_, _, _, _)
PrayerBoundIssues(tpl, h, sch, k) ==
    IF k > Len(tpl.events) THEN <<>>
    ELSE PrayerBoundIssuesOf(h[tpl.events[k]], tpl, sch) \o PrayerBoundIssues(tpl, h, sch, k + 1)

\* sorted(..., key=anchor): stable insertion of the event at addr
RECURSIVE InsertByAnchor(_, _, _)
InsertByAnchor(sorted, addr, h) ==
    IF sorted = <<>> THEN <<addr>>
    ELSE IF Some(h[addr].anchor) < Some(h[Head(sorted)].anchor)
    THEN <<addr>> \o sorted
    ELSE <<Head(sorted)>> \o InsertByAnchor(Tail(sorted), addr, h)

RECURSIVE SortedFixed(_, _, _)
SortedFixed(tpl, h, k) ==
    IF k = 0 THEN <<>>
    ELSE IF h[tpl.events[k]].kind = "fixed"
    THEN InsertByAnchor(SortedFixed(tpl, h, k - 1), tpl.events[k], h)
    ELSE SortedFixed(tpl, h, k - 1)

RECURSIVE FixedIssues(_, _, _)

\* the loop of _validate_fixed_events also rejecting an event that starts
\* exactly where the earlier ones end
FixedIssuesTouching(fixed_events, h, last_end) ==
    IF fixed_events = <<>> THEN <<>>
    ELSE LET event == h[Head(fixed_events)]
             start == Some(event.anchor)
             end == start + event.duration
             new_end == IF last_end = {} \/ end >= Some(last_end) THEN {end} ELSE last_end
         IN (IF last_end # {} /\ start <= Some(last_end)
             THEN <<Issue("fixed_overlap", event.name, 0)>> ELSE <<>>)
            \o FixedIssues(Tail(fixed_events), h, new_end)

\* _validate_fixed_events, the loop over the sorted events; last_end is a
\* set, empty for None
FixedIssues(fixed_events, h, last_end) ==
    IF fixed_events = <<>> THEN <<>>
    ELSE LET event == h[Head(fixed_events)]
             start == Some(event.anchor)
             end == start + event.duration
             new_end == IF last_end = {} \/ end >= Some(last_end) THEN {end} ELSE last_end
         IN (IF last_end # {} /\ start < Some(last_end)
             THEN <<Issue("fixed_overlap", event.name, 0)>> ELSE <<>>)
            \o FixedIssues(Tail(fixed_events), h, new_end)

\* the positive-duration check accepting a duration of zero
PositiveIssuesBelowZero(event, d) ==
    IF d < 0 THEN <<Issue("positive", event.name, 0)>> ELSE <<>>

\* _validate_total_duration: the positive-duration check of one event
PositiveIssues(event, d) ==
    IF d <= 0 THEN <<Issue("positive", event.name, 0)>> ELSE <<>>

\* _validate_total_duration, the loop: acc is [issues, total, cursor,
\* overage_event (a set, empty for None), overage_amount]
RECURSIVE TotalLoop(_, _, _, _, _)
TotalLoop(tpl, h, sch, k, acc) ==
    IF k > Len(tpl.events) THEN acc
    ELSE
    LET event == h[tpl.events[k]]
        over(total) == acc.overage_event = {} /\ total > DayLen
        mark(a, total) == IF over(total)
                          THEN [a EXCEPT !.overage_event = {event.name},
                                         !.overage_amount = total - DayLen]
                          ELSE a
        nonpos(d) == PositiveIssues(event, d)
    IN
    IF event.kind = "prayer_bound" /\ event.end_ref.tag # "none"
    THEN LET resolved == ValidatorResolveRef(event.start_ref, sch)
             start_dt == IF resolved = {} THEN acc.cursor ELSE Some(resolved)
             end_ref_dt == ValidatorResolveRef(event.end_ref, sch)
             end_dt == IF Some(end_ref_dt) <= start_dt
                       THEN Some(end_ref_dt) + DayLen ELSE Some(end_ref_dt)
             duration == end_dt - start_dt
         IN IF end_ref_dt = {} THEN TotalLoop(tpl, h, sch, k + 1, acc)
            ELSE TotalLoop(tpl, h, sch, k + 1,
                    mark([acc EXCEPT !.issues = @ \o nonpos(duration),
                                     !.total = @ + duration,
                                     !.cursor = end_dt],
                         acc.total + duration))
    ELSE IF event.kind = "prayer_bound"
    THEN TotalLoop(tpl, h, sch, k + 1,
            mark([acc EXCEPT !.issues = @ \o nonpos(event.duration),
                             !.total = @ + event.duration,
                             !.cursor = @ + event.duration],
                 acc.total + event.duration))
    ELSE LET resolved == ValidatorResolveRef(PrayerRef(event.prayer), sch)
             start_dt == CASE event.kind = "fixed" -> Some(event.anchor)
                           [] event.kind = "prayer" /\ event.anchor # {} -> Some(event.anchor)
                           [] event.kind = "prayer" /\ event.anchor = {} ->
                                 IF resolved # {} THEN Some(resolved) ELSE acc.cursor
                           [] OTHER -> acc.cursor
         IN TotalLoop(tpl, h, sch, k + 1,
                mark([acc EXCEPT !.issues = @ \o nonpos(event.duration),
                                 !.total = @ + event.duration,
                                 !.cursor = start_dt + event.duration],
                     acc.total + event.duration))

\* _validate_total_duration rejecting a total of exactly 24 hours
TotalIssuesAtLimit(tpl, h, sch) ==
    LET acc == TotalLoop(tpl, h, sch, 1,
                   [issues |-> <<>>, total |-> 0, cursor |-> tpl.start_time,
                    overage_event |-> {}, overage_amount |-> 0])
    IN acc.issues \o
       (IF acc.total >= DayLen
        THEN IF acc.overage_event # {}
             THEN <<Issue("total", Some(acc.overage_event), acc.overage_amount)>>
             ELSE <<Issue("total", "", 0)>>
        ELSE <<>>)

\* _validate_total_duration
TotalIssues(tpl, h, sch) ==
    LET acc == TotalLoop(tpl, h, sch, 1,
                   [issues |-> <<>>, total |-> 0, cursor |-> tpl.start_time,
                    overage_event |-> {}, overage_amount |-> 0])
    IN acc.issues \o
       (IF acc.total > DayLen
        THEN IF acc.overage_event # {}
             THEN <<Issue("total", Some(acc.overage_event), acc.overage_amount)>>
             ELSE <<Issue("total", "", 0)>>
        ELSE <<>>)

Warning(check, name, other) == [check |-> check, event |-> name, other |-> other]

\* _warn_relative_ranges, first loop: fixed_refs, the (name, time) pairs of
\* the Fixed events and of the Prayer events with an anchor or a known prayer
RECURSIVE FixedRefs(_, _, _, _)
FixedRefs(tpl, h, sch, k) ==
    IF k > Len(tpl.events) THEN <<>>
    ELSE LET event == h[tpl.events[k]]
             resolved == ValidatorResolveRef(PrayerRef(event.prayer), sch)
             ref == CASE event.kind = "fixed" -> <<<<event.name, Some(event.anchor)>>>>
                      [] event.kind = "prayer" /\ event.anchor # {} ->
                            <<<<event.name, Some(event.anchor)>>>>
                      [] event.kind = "prayer" /\ event.anchor = {} /\ resolved # {} ->
                            <<<<event.name, Some(resolved)>>>>
                      [] OTHER -> <<>>
         IN ref \o FixedRefs(tpl, h, sch, k + 1)

\* _warn_relative_ranges, the inner loop: the first of fixed_refs inside
\* [start_dt, end_dt), a set, empty when there is none
FirstInside(fixed_refs, start_dt, end_dt) ==
    LET hits == {j \in 1..Len(fixed_refs) :
                    fixed_refs[j][2] >= start_dt /\ fixed_refs[j][2] < end_dt}
    IN IF hits = {} THEN {}
       ELSE {fixed_refs[CHOOSE j \in hits : \A i \in hits : j <= i][1]}

\* _warn_relative_ranges, second loop: acc is [warnings, cursor]
RECURSIVE WarnLoop(_, _, _, _, _, _)
WarnLoop(tpl, h, sch, fixed_refs, k, acc) ==
    IF k > Len(tpl.events) THEN acc
    ELSE
    LET event == h[tpl.events[k]]
        resolved == ValidatorResolveRef(PrayerRef(event.prayer), sch)
    IN
    IF event.kind = "prayer_bound" /\ event.end_ref.tag # "none"
    THEN LET start_ref_dt == ValidatorResolveRef(event.start_ref, sch)
             start_dt == IF start_ref_dt = {} THEN acc.cursor ELSE Some(start_ref_dt)
             end_ref_dt == ValidatorResolveRef(event.end_ref, sch)
             wraps == Some(end_ref_dt) <= start_dt
             end_dt == IF wraps THEN Some(end_ref_dt) + DayLen ELSE Some(end_ref_dt)
             inside == FirstInside(fixed_refs, start_dt, end_dt)
         IN IF end_ref_dt = {} THEN WarnLoop(tpl, h, sch, fixed_refs, k + 1, acc)
            ELSE WarnLoop(tpl, h, sch, fixed_refs, k + 1,
                    [warnings |-> acc.warnings
                        \o (IF wraps THEN <<Warning("spans", event.name, "")>> ELSE <<>>)
                        \o (IF inside # {}
                            THEN <<Warning("overlaps", event.name, Some(inside))>>
                            ELSE <<>>),
                     cursor |-> end_dt])
    ELSE LET next == CASE event.kind = "fixed" -> Some(event.anchor) + event.duration
                       [] event.kind = "prayer" /\ event.anchor = {} /\ resolved # {} ->
                             Some(resolved) + event.duration
                       [] event.kind = "prayer" /\ event.anchor # {} ->
                             Some(event.anchor) + event.duration
                       [] OTHER -> acc.cursor + event.duration
         IN WarnLoop(tpl, h, sch, fixed_refs, k + 1, [acc EXCEPT !.cursor = next])

\* _warn_relative_ranges
Warnings(tpl, h, sch) ==
    WarnLoop(tpl, h, sch, FixedRefs(tpl, h, sch, 1), 1,
             [warnings |-> <<>>, cursor |-> tpl.start_time]).warnings

\* validate, the end: raise TemplateValidationError(issues) or return warnings
Outcome(found, soft) ==
    IF found # <<>> THEN [kind |-> "raise", list |-> found]
    ELSE [kind |-> "return", list |-> soft]

\* validate giving up at the first check that finds something
IssuesFirstOnly(tpl, h, sch) ==
    LET wake == WakeIssues(tpl, sch)
        bounds == PrayerBoundIssues(tpl, h, sch, 1)
        fixed == FixedIssues(SortedFixed(tpl, h, Len(tpl.events)), h, {})
    IN IF wake # <<>> THEN wake
       ELSE IF bounds # <<>> THEN bounds
       ELSE IF fixed # <<>> THEN fixed
       ELSE TotalIssues(tpl, h, sch)

\* validate: the issues collected by the four hard checks, in call order
Issues(tpl, h, sch) ==
    WakeIssues(tpl, sch)
    \o PrayerBoundIssues(tpl, h, sch, 1)
    \o FixedIssues(SortedFixed(tpl, h, Len(tpl.events)), h, {})
    \o TotalIssues(tpl, h, sch)

----------------------------------------------------------------------------
(* The qalib text format (src/src/munazzim/qalib.py).  A text is a         *)
(* sequence of lines, a line a sequence of tokens (what str.split gives),  *)
(* a token a sequence of one-character strings.  Here a time of day and a  *)
(* duration are counted in minutes.                                        *)

Digits == <<"0", "1", "2", "3", "4", "5", "6", "7", "8", "9">>

LowerLetters == <<"a", "b", "c", "d", "e", "f", "g", "h", "i", "j", "k", "l", "m",
                  "n", "o", "p", "q", "r", "s", "t", "u", "v", "w", "x", "y", "z">>

UpperLetters == <<"A", "B", "C", "D", "E", "F", "G", "H", "I", "J", "K", "L", "M",
                  "N", "O", "P", "Q", "R", "S", "T", "U", "V", "W", "X", "Y", "Z">>

Letters == {LowerLetters[i] : i \in 1..26} \cup {UpperLetters[i] : i \in 1..26}

\* str.lower and str.upper of one character
LowerOf == [c \in Letters |-> LowerLetters[CHOOSE i \in 1..26 : c \in {LowerLetters[i], UpperLetters[i]}]]

UpperOf == [c \in Letters |-> UpperLetters[CHOOSE i \in 1..26 : c \in {LowerLetters[i], UpperLetters[i]}]]

\* str.lower
LowerText(tok) == [i \in 1..Len(tok) |-> IF tok[i] \in Letters THEN LowerOf[tok[i]] ELSE tok[i]]

\* str.title of a single word: a capital after every character that is not
\* a letter, small letters elsewhere
TitleText(tok) ==
    [i \in 1..Len(tok) |->
        IF tok[i] \notin Letters THEN tok[i]
        ELSE IF i = 1 \/ tok[i - 1] \notin Letters THEN UpperOf[tok[i]] ELSE LowerOf[tok[i]]]

AllDigits(tok) == \A i \in 1..Len(tok) : \E d \in 1..10 : Digits[d] = tok[i]

\* str.find: the position of the first c in tok, 0 when there is none
Find(tok, c) ==
    IF \E i \in 1..Len(tok) : tok[i] = c
    THEN CHOOSE i \in 1..Len(tok) : tok[i] = c /\ \A j \in 1..(i - 1) : tok[j] # c
    ELSE 0

Before(tok, i) == SubSeq(tok, 1, i - 1)

After(tok, i) == SubSeq(tok, i + 1, Len(tok))

\* int(text or 0) of a string of digits
RECURSIVE ToInt(_)
ToInt(tok) ==
    IF tok = <<>> THEN 0
    ELSE 10 * ToInt(Before(tok, Len(tok))) + ((CHOOSE d \in 1..10 : Digits[d] = tok[Len(tok)]) - 1)

\* str(n) of a natural number
RECURSIVE ToStr(_)
ToStr(n) ==
    IF n < 10 THEN <<Digits[n + 1]>> ELSE ToStr(n \div 10) \o <<Digits[(n % 10) + 1]>>

\* f"{n:02d}"
TwoDigits(n) == IF n < 10 THEN <<"0">> \o ToStr(n) ELSE ToStr(n)

\* _TIME_TOKEN: one or two digits, ':' or '.', two digits
IsTimeToken(tok) ==
    /\ Len(tok) \in {4, 5}
    /\ tok[Len(tok) - 2] \in {":", "."}
    /\ AllDigits(Before(tok, Len(tok) - 2))
    /\ AllDigits(After(tok, Len(tok) - 2))

\* _DURATION_TOKEN: digits, digits:dd, digits.d, digits.dd, .d or .dd
IsDurationToken(tok) ==
    \/ tok # <<>> /\ AllDigits(tok)
    \/ \E i \in 2..Len(tok) :
          /\ tok[i] = ":" /\ Len(tok) - i = 2
          /\ AllDigits(Before(tok, i)) /\ AllDigits(After(tok, i))
    \/ \E i \in 1..Len(tok) :
          /\ tok[i] = "." /\ Len(tok) - i \in {1, 2}
          /\ AllDigits(Before(tok, i)) /\ AllDigits(After(tok, i))

\* a day in minutes
DayMinutes == 1440

\* parse_hhmm: the set holding the time of day, empty for a ValueError
ParseHhmm(tok) ==
    LET i == IF Find(tok, ":") # 0 THEN Find(tok, ":") ELSE Find(tok, ".")
        hour == ToInt(Before(tok, i))
        minute == ToInt(After(tok, i))
    IN IF i # 0 /\ hour < 24 /\ minute < 60 THEN {60 * hour + minute} ELSE {}

\* format_hhmm
FormatHhmm(t) == TwoDigits(t \div 60) \o <<":">> \o TwoDigits(t % 60)

\* _duration_token_to_timedelta of a token _DURATION_TOKEN matches
DurationTokenToTimedelta(tok) ==
    IF tok[1] = "." THEN ToInt(After(tok, 1))
    ELSE IF Find(tok, ":") # 0
         THEN 60 * ToInt(Before(tok, Find(tok, ":"))) + ToInt(After(tok, Find(tok, ":")))
    ELSE IF Find(tok, ".") # 0
         THEN 60 * ToInt(Before(tok, Find(tok, "."))) + ToInt(After(tok, Find(tok, ".")))
    ELSE 60 * ToInt(tok)

\* _format_duration_token
FormatDurationToken(value) ==
    LET hours == value \div 60
        minutes == value % 60
    IN IF hours # 0 /\ minutes # 0 THEN ToStr(hours) \o <<".">> \o TwoDigits(minutes)
       ELSE IF hours # 0 THEN ToStr(hours)
       ELSE <<".">> \o TwoDigits(minutes)

\* _duration_between
DurationBetween(start, end) == IF end <= start THEN end + DayMinutes - start ELSE end - start

\* the keys of _PRAYER_ALIASES
PrayerWords ==
    {<<"f", "a", "j", "r">>, <<"d", "h", "u", "h", "r">>, <<"d", "u", "h", "r">>,
     <<"a", "s", "r">>, <<"m", "a", "g", "h", "r", "i", "b">>, <<"i", "s", "h", "a">>}

\* _is_prayer_token
IsPrayerToken(tok) == LowerText(tok) \in PrayerWords

\* _normalize_prayer_token: _PRAYER_ALIASES.get(lower, lower).title()
NormalizePrayerToken(tok) ==
    TitleText(IF LowerText(tok) = <<"d", "u", "h", "r">> THEN <<"d", "h", "u", "h", "r">>
              ELSE LowerText(tok))

\* _PRAYER_OFFSET_TOKEN: letters, a sign, one to three digits
IsOffsetToken(tok) ==
    \E i \in 2..Len(tok) :
        /\ tok[i] \in {"+", "-"}
        /\ \A j \in 1..(i - 1) : tok[j] \in Letters
        /\ Len(tok) - i \in 1..3
        /\ AllDigits(After(tok, i))

\* a line of text is a sequence of characters; str.rstrip, str.strip
RStrip(s) ==
    LET blank == {i \in 1..(Len(s) + 1) : \A j \in i..Len(s) : s[j] = " "}
    IN SubSeq(s, 1, (CHOOSE i \in blank : \A j \in blank : i <= j) - 1)

Strip(s) ==
    LET blank == {i \in 0..Len(s) : \A j \in 1..i : s[j] = " "}
    IN RStrip(SubSeq(s, (CHOOSE i \in blank : \A j \in blank : j <= i) + 1, Len(s)))

\* str.startswith
StartsWith(s, prefix) == Len(s) >= Len(prefix) /\ SubSeq(s, 1, Len(prefix)) = prefix

\* str.split(): the words between runs of spaces
Split(s) ==
    LET starts == {i \in 1..Len(s) : s[i] # " " /\ (i = 1 \/ s[i - 1] = " ")}
        start(k) == CHOOSE i \in starts : Cardinality({j \in starts : j <= i}) = k
        stop(i) == CHOOSE e \in i..Len(s) :
                      /\ \A j \in i..e : s[j] # " "
                      /\ e = Len(s) \/ s[e + 1] = " "
    IN [k \in 1..Cardinality(starts) |-> SubSeq(s, start(k), stop(start(k)))]

\* " ".join(words)
RECURSIVE JoinFrom(_, _)
JoinFrom(words, k) ==
    IF k > Len(words) THEN <<>>
    ELSE IF k = Len(words) THEN words[k]
    ELSE words[k] \o <<" ">> \o JoinFrom(words, k + 1)

Join(words) == JoinFrom(words, 1)

\* the position of the first occurrence of the two characters c c, 0 if none
FindPair(s, c) ==
    IF \E i \in 1..(Len(s) - 1) : s[i] = c /\ s[i + 1] = c
    THEN CHOOSE i \in 1..(Len(s) - 1) :
            /\ s[i] = c /\ s[i + 1] = c
            /\ \A j \in 1..(i - 1) : ~(s[j] = c /\ s[j + 1] = c)
    ELSE 0

\* _strip_inline_comment
StripInlineComment(value) ==
    IF Find(value, "#") = 0 THEN value ELSE RStrip(Before(value, Find(value, "#")))

\* the words the model spells out
Text(word) ==
    CASE word = "name:" -> <<"n", "a", "m", "e", ":">>
      [] word = "description:" ->
            <<"d", "e", "s", "c", "r", "i", "p", "t", "i", "o", "n", ":">>
      [] word = "prayer_durations." ->
            <<"p", "r", "a", "y", "e", "r", "_", "d", "u", "r", "a", "t", "i", "o", "n", "s", ".">>
      [] word = "prayer_overrides." ->
            <<"p", "r", "a", "y", "e", "r", "_", "o", "v", "e", "r", "r", "i", "d", "e", "s", ".">>
      [] word = "Block " -> <<"B", "l", "o", "c", "k", " ">>
      [] word = "Thabbat " -> <<"T", "h", "a", "b", "b", "a", "t", " ">>
      [] word = "Task" -> <<"T", "a", "s", "k">>
      [] word = "Unnamed Template" ->
            <<"U", "n", "n", "a", "m", "e", "d", " ", "T", "e", "m", "p", "l", "a", "t", "e">>
      [] word = "fajr" -> <<"f", "a", "j", "r">>
      [] word = "dhuhr" -> <<"d", "h", "u", "h", "r">>
      [] word = "asr" -> <<"a", "s", "r">>
      [] word = "maghrib" -> <<"m", "a", "g", "h", "r", "i", "b">>
      [] word = "isha" -> <<"i", "s", "h", "a">>
      [] word = "Fajr" -> <<"F", "a", "j", "r">>
      [] word = "Dhuhr" -> <<"D", "h", "u", "h", "r">>
      [] word = "Duhr" -> <<"D", "u", "h", "r">>
      [] word = "Asr" -> <<"A", "s", "r">>
      [] word = "Maghrib" -> <<"M", "a", "g", "h", "r", "i", "b">>
      [] word = "Breakfast" -> <<"B", "r", "e", "a", "k", "f", "a", "s", "t">>
      [] word = "Warmup" -> <<"W", "a", "r", "m", "u", "p">>
      [] word = "Stretch" -> <<"S", "t", "r", "e", "t", "c", "h">>
      [] word = "Trip" -> <<"T", "r", "i", "p">>
      [] word = "Talk" -> <<"T", "a", "l", "k">>
      [] word = "Day" -> <<"D", "a", "y">>

\* time | str | None, the references of a PrayerBound event
QNone == [tag |-> "none", time |-> 0, text |-> <<>>]

QText(s) == [tag |-> "text", time |-> 0, text |-> s]

\* the result of a helper of the parser: the exception it raised, "" for
\* none, and its value
Raise(exception) == [error |-> exception, value |-> QNone]

Return(v) == [error |-> "", value |-> v]

\* _parse_time_or_prayer
ParseTimeOrPrayer(token) ==
    LET cleaned == Strip(token)
        sign == CHOOSE i \in 1..Len(cleaned) : cleaned[i] \in {"+", "-"}
    IN IF cleaned = <<>> THEN Return(QNone)
       ELSE IF IsTimeToken(cleaned)
            THEN IF ParseHhmm(cleaned) = {} THEN Raise("ValueError")
                 ELSE Return([tag |-> "time", time |-> Some(ParseHhmm(cleaned)), text |-> <<>>])
       ELSE IF IsOffsetToken(cleaned)
            THEN Return(QText(NormalizePrayerToken(Before(cleaned, sign))
                              \o <<cleaned[sign]>> \o After(cleaned, sign)))
       ELSE IF IsPrayerToken(cleaned) THEN Return(QText(NormalizePrayerToken(cleaned)))
       ELSE Raise("QalibParseError")

\* models.Task
Task(label, note, occurrences) ==
    [label |-> label, note |-> note,
     total_occurrences |-> occurrences, remaining_occurrences |-> occurrences]

\* the events the parser builds: Event, FixedEvent, PrayerEvent and
\* PrayerBoundEvent of models.py, with their task lists
QEvent(name, duration) ==
    [kind |-> "relative", name |-> name, duration |-> duration, anchor |-> {},
     prayer |-> <<>>, start_ref |-> QNone, end_ref |-> QNone, tasks |-> <<>>]

QFixed(name, duration, anchor) ==
    [QEvent(name, duration) EXCEPT !.kind = "fixed", !.anchor = {anchor}]

QPrayer(name, prayer, duration, anchor) ==
    [QEvent(name, duration) EXCEPT !.kind = "prayer", !.prayer = prayer, !.anchor = anchor]

QPrayerBound(name, duration, start_ref, end_ref) ==
    [QEvent(name, duration) EXCEPT !.kind = "prayer_bound",
                                   !.start_ref = start_ref, !.end_ref = end_ref]

\* _TemplateBuilder.__init__; current is the position in events of
\* _current_event, 0 for None
NewBuilder(default_name) ==
    [name |-> default_name, description |-> <<>>, start_time |-> {}, events |-> <<>>,
     prayer_durations |-> {}, prayer_overrides |-> {}, current |-> 0, block_counter |-> 1]

\* the result of a handler of the builder: the exception it raised, "" for
\* none, and the builder it leaves
Failed(b, exception) == [error |-> exception, builder |-> b]

Handled(b) == [error |-> "", builder |-> b]

\* self.events.append(event); self._current_event = event;
\* self._block_counter += 1
Appended(b, event) ==
    Handled([b EXCEPT !.events = Append(@, event),
                      !.current = Len(b.events) + 1,
                      !.block_counter = @ + 1])

\* name.strip().lower().split()[0], "" for an empty name
FirstWord(name) ==
    IF Split(LowerText(Strip(name))) = <<>> THEN <<>> ELSE Split(LowerText(Strip(name)))[1]

\* f"{prefix}{self._block_counter}"
DefaultName(prefix, b) == Text(prefix) \o ToStr(b.block_counter)

\* _add_relative_event
AddRelativeEvent(b, tokens, content) ==
    LET duration_token == tokens[1]
        duration == DurationTokenToTimedelta(duration_token)
        rest == Strip(SubSeq(content, Len(duration_token) + 1, Len(content)))
        name == IF rest # <<>> THEN rest ELSE DefaultName("Block ", b)
    IN IF ~IsDurationToken(duration_token) THEN Failed(b, "QalibParseError")
       ELSE IF IsPrayerToken(FirstWord(name))
            THEN Appended(b, QPrayer(name, NormalizePrayerToken(FirstWord(name)), duration, {}))
       ELSE Appended(b, QEvent(name, duration))

\* _add_fixed_event with the end of the block as its duration
AddFixedEventUnwrapped(b, tokens) ==
    LET start == ParseHhmm(tokens[1])
        end == ParseHhmm(tokens[2])
        rest_of_line == Strip(Join(SubSeq(tokens, 3, Len(tokens))))
        name == IF rest_of_line # <<>> THEN rest_of_line ELSE DefaultName("Thabbat ", b)
        duration == Some(end) - Some(start)
    IN IF start = {} \/ end = {} THEN Failed(b, "ValueError")
       ELSE IF IsPrayerToken(FirstWord(name))
            THEN Appended(b, QPrayer(name, NormalizePrayerToken(FirstWord(name)),
                                     duration, start))
       ELSE Appended(b, QFixed(name, duration, Some(start)))

\* _add_fixed_event
AddFixedEvent(b, tokens) ==
    LET start == ParseHhmm(tokens[1])
        end == ParseHhmm(tokens[2])
        rest_of_line == Strip(Join(SubSeq(tokens, 3, Len(tokens))))
        name == IF rest_of_line # <<>> THEN rest_of_line ELSE DefaultName("Thabbat ", b)
        duration == DurationBetween(Some(start), Some(end))
    IN IF start = {} \/ end = {} THEN Failed(b, "ValueError")
       ELSE IF IsPrayerToken(FirstWord(name))
            THEN Appended(b, QPrayer(name, NormalizePrayerToken(FirstWord(name)),
                                     duration, start))
       ELSE Appended(b, QFixed(name, duration, Some(start)))

\* _add_fixed_duration_event
AddFixedDurationEvent(b, tokens) ==
    LET start == ParseHhmm(tokens[1])
        duration_token == Strip(Tail(tokens[2]))
        duration == DurationTokenToTimedelta(duration_token)
        rest_of_line == Strip(Join(SubSeq(tokens, 3, Len(tokens))))
        name == IF rest_of_line # <<>> THEN rest_of_line ELSE DefaultName("Thabbat ", b)
        first_word == FirstWord(name)
    IN IF start = {} THEN Failed(b, "ValueError")
       ELSE IF duration_token = <<>> \/ ~IsDurationToken(duration_token)
            THEN Failed(b, "QalibParseError")
       ELSE IF first_word \in {Text("fajr"), Text("dhuhr"), Text("asr"),
                               Text("maghrib"), Text("isha")}
            THEN Appended(b, QPrayer(name, TitleText(first_word), duration, start))
       ELSE Appended(b, QFixed(name, duration, Some(start)))

\* _add_prayer_duration_event
AddPrayerDurationEvent(b, tokens) ==
    LET duration_token == Strip(Tail(tokens[2]))
        rest_of_line == Strip(Join(SubSeq(tokens, 3, Len(tokens))))
        name == IF rest_of_line # <<>> THEN rest_of_line ELSE DefaultName("Thabbat ", b)
    IN IF duration_token = <<>> \/ ~IsDurationToken(duration_token)
       THEN Failed(b, "QalibParseError")
       ELSE Appended(b, QPrayerBound(name, DurationTokenToTimedelta(duration_token),
                                     QText(NormalizePrayerToken(tokens[1])), QNone))

\* _add_prayer_range_event; a PrayerBound event with an end reference is a
\* range
AddPrayerRangeEvent(b, tokens) ==
    LET range_token == tokens[1]
        dots == FindPair(range_token, ".")
        start_ref == ParseTimeOrPrayer(Before(range_token, dots))
        end_ref == ParseTimeOrPrayer(After(range_token, dots + 1))
        rest_of_line == Strip(Join(Tail(tokens)))
        name == IF rest_of_line # <<>> THEN rest_of_line ELSE DefaultName("Thabbat ", b)
    IN IF start_ref.error # "" THEN Failed(b, start_ref.error)
       ELSE IF end_ref.error # "" THEN Failed(b, end_ref.error)
       ELSE IF end_ref.value = QNone THEN Failed(b, "QalibParseError")
       ELSE Appended(b, QPrayerBound(name, 0, start_ref.value, end_ref.value))

\* a numeric literal of Python that is a whole number: digits with no
\* leading zero, or zeros only
IsLiteral(s) == s # <<>> /\ AllDigits(s) /\ (s[1] = "0" => \A i \in 1..Len(s) : s[i] = "0")

\* _eval_occurrence_expression of a literal, or of two literals joined by one
\* of + - * / //: the exception raised, or the value int(result)
EvalOccurrenceExpression(expression) ==
    LET ops == {i \in 1..Len(expression) : expression[i] \in {"+", "-", "*", "/"}}
        at == CHOOSE i \in ops : \A j \in ops : i <= j
        double == at < Len(expression) /\ expression[at] = "/" /\ expression[at + 1] = "/"
        left == Strip(Before(expression, at))
        right == Strip(After(expression, IF double THEN at + 1 ELSE at))
        a == ToInt(left)
        c == ToInt(right)
    IN IF ops = {}
       THEN IF IsLiteral(Strip(expression)) /\ ToInt(Strip(expression)) > 0
            THEN Return(ToInt(Strip(expression))) ELSE Raise("QalibParseError")
       ELSE IF ~IsLiteral(left) \/ ~IsLiteral(right) THEN Raise("QalibParseError")
       ELSE IF expression[at] = "/" /\ c = 0 THEN Raise("ZeroDivisionError")
       ELSE LET positive == CASE expression[at] = "+" -> a + c > 0
                              [] expression[at] = "-" -> a - c > 0
                              [] expression[at] = "*" -> a * c > 0
                              [] expression[at] = "/" /\ double -> a \div c > 0
                              [] expression[at] = "/" /\ ~double -> a > 0
                value == CASE expression[at] = "+" -> a + c
                           [] expression[at] = "-" -> a - c
                           [] expression[at] = "*" -> a * c
                           [] expression[at] = "/" -> a \div c
            IN IF positive THEN Return(value) ELSE Raise("QalibParseError")

\* _split_task_label_and_note: the label and the note, a set, empty for None
SplitTaskLabelAndNote(text) ==
    LET at == FindPair(text, ":")
        note == Strip(After(text, at + 1))
    IN IF at = 0 THEN [label |-> Strip(text), note |-> {}]
       ELSE [label |-> Strip(Before(text, at)), note |-> IF note = <<>> THEN {} ELSE {note}]

\* _add_task appending the task to every event
AddTaskToAll(b, content) ==
    LET body0 == Strip(Tail(content))
        closing == Find(body0, "]")
        expr == Strip(SubSeq(body0, 2, closing - 1))
        counted == StartsWith(body0, <<"[">>) /\ expr # <<>>
        count == EvalOccurrenceExpression(expr)
        body == IF StartsWith(body0, <<"[">>) THEN Strip(After(body0, closing)) ELSE body0
        parts == SplitTaskLabelAndNote(body)
        task == Task(IF parts.label # <<>> THEN parts.label ELSE Text("Task"), parts.note,
                     IF counted THEN {count.value} ELSE {})
    IN IF b.current = 0 THEN Failed(b, "QalibParseError")
       ELSE IF StartsWith(body0, <<"[">>) /\ closing = 0 THEN Failed(b, "QalibParseError")
       ELSE IF counted /\ count.error # "" THEN Failed(b, count.error)
       ELSE Handled([b EXCEPT !.events =
                        [k \in 1..Len(b.events) |-> [b.events[k] EXCEPT !.tasks = Append(@, task)]]])

\* _add_task
AddTask(b, content) ==
    LET body0 == Strip(Tail(content))
        closing == Find(body0, "]")
        expr == Strip(SubSeq(body0, 2, closing - 1))
        counted == StartsWith(body0, <<"[">>) /\ expr # <<>>
        count == EvalOccurrenceExpression(expr)
        body == IF StartsWith(body0, <<"[">>) THEN Strip(After(body0, closing)) ELSE body0
        parts == SplitTaskLabelAndNote(body)
        task == Task(IF parts.label # <<>> THEN parts.label ELSE Text("Task"), parts.note,
                     IF counted THEN {count.value} ELSE {})
    IN IF b.current = 0 THEN Failed(b, "QalibParseError")
       ELSE IF StartsWith(body0, <<"[">>) /\ closing = 0 THEN Failed(b, "QalibParseError")
       ELSE IF counted /\ count.error # "" THEN Failed(b, count.error)
       ELSE Handled([b EXCEPT !.events[b.current].tasks = Append(@, task)])

\* dict[key] = value on a dictionary kept as a set of <<key, value>> pairs
DictSet(dict, key, value) == {kv \in dict : kv[1] # key} \cup {<<key, value>>}

\* dict.get(key): the set holding the value, empty for None
DictGet(dict, key) == {kv[2] : kv \in {e \in dict : e[1] = key}}

\* _consume_prayer_setting
ConsumePrayerSetting(b, header, target) ==
    LET colon == Find(header, ":")
        key_part == Before(header, colon)
        value == Strip(After(header, colon))
        raw_key == LowerText(Strip(After(key_part, Find(key_part, "."))))
        prayer_key == IF raw_key = <<"d", "u", "h", "r">> THEN Text("dhuhr") ELSE raw_key
    IN IF colon = 0 THEN Failed(b, "QalibParseError")
       ELSE IF prayer_key \notin {Text("fajr"), Text("dhuhr"), Text("asr"),
                                  Text("maghrib"), Text("isha")}
            THEN Failed(b, "QalibParseError")
       ELSE IF value = <<>> THEN Handled(b)
       ELSE IF target = "durations"
            THEN Handled([b EXCEPT !.prayer_durations = DictSet(@, prayer_key, value)])
       ELSE Handled([b EXCEPT !.prayer_overrides = DictSet(@, prayer_key, value)])

\* consume, the head of the line: stripped, and header without its '#'
Stripped(line) == Strip(line)

Header(line) ==
    IF StartsWith(Stripped(line), <<"#">>) THEN Strip(Tail(Stripped(line)))
    ELSE Stripped(line)

\* consume: the branch taken for the stripped line, its header in small
\* letters, its content and the tokens of its content
BranchOf(b, stripped, lower, content, tokens) ==
    IF stripped = <<>> THEN "blank"
    ELSE IF StartsWith(lower, Text("name:")) THEN "name"
    ELSE IF StartsWith(lower, Text("description:")) THEN "description"
    ELSE IF StartsWith(lower, Text("prayer_durations.")) THEN "prayer_durations"
    ELSE IF StartsWith(lower, Text("prayer_overrides.")) THEN "prayer_overrides"
    ELSE IF StartsWith(stripped, <<"#">>) THEN "comment"
    ELSE IF content = <<>> THEN "comment"
    ELSE IF StartsWith(content, <<"-">>) THEN "task"
    ELSE IF Len(tokens) >= 2 /\ IsTimeToken(tokens[1]) /\ IsTimeToken(tokens[2])
         THEN "fixed"
    ELSE IF Len(tokens) >= 2 /\ IsTimeToken(tokens[1]) /\ StartsWith(tokens[2], <<"+">>)
         THEN "fixed_duration"
    ELSE IF Len(tokens) >= 2 /\ IsPrayerToken(tokens[1]) /\ StartsWith(tokens[2], <<"+">>)
         THEN "prayer_duration"
    ELSE IF tokens # <<>> /\ FindPair(tokens[1], ".") # 0 THEN "range"
    ELSE IF b.start_time = {} /\ Len(tokens) = 1 /\ IsTimeToken(tokens[1]) THEN "start"
    ELSE "relative"

\* consume: the branch a line takes
LineKind(b, line) ==
    CHOOSE kind \in {BranchOf(b, stripped, lower, content, Split(content)) :
                        stripped \in {Stripped(line)},
                        lower \in {LowerText(Header(line))},
                        content \in {StripInlineComment(Stripped(line))}} : TRUE

\* consume: what the branch does
Consume(b, line) ==
    LET kind == LineKind(b, line)
        header == Header(line)
        content == StripInlineComment(Stripped(line))
        tokens == Split(content)
        detail == Strip(After(header, Find(header, ":")))
    IN CASE kind \in {"blank", "comment"} -> Handled(b)
         [] kind = "name" -> Handled([b EXCEPT !.name = detail])
         [] kind = "description" ->
               Handled([b EXCEPT !.description =
                           (IF @ # <<>> THEN @ \o <<" ">> ELSE @) \o detail])
         [] kind = "prayer_durations" -> ConsumePrayerSetting(b, header, "durations")
         [] kind = "prayer_overrides" -> ConsumePrayerSetting(b, header, "overrides")
         [] kind = "task" -> AddTask(b, content)
         [] kind = "fixed" -> AddFixedEvent(b, tokens)
         [] kind = "fixed_duration" -> AddFixedDurationEvent(b, tokens)
         [] kind = "prayer_duration" -> AddPrayerDurationEvent(b, tokens)
         [] kind = "range" -> AddPrayerRangeEvent(b, tokens)
         [] kind = "start" ->
               IF ParseHhmm(tokens[1]) = {} THEN Failed(b, "ValueError")
               ELSE Handled([b EXCEPT !.start_time = ParseHhmm(tokens[1])])
         [] kind = "relative" -> AddRelativeEvent(b, tokens, content)

\* build: the DayTemplate, or the error for a text without a wake-up time
Build(b) ==
    [name |-> IF b.name # <<>> THEN b.name ELSE Text("Unnamed Template"),
     start_time |-> Some(b.start_time),
     events |-> b.events,
     description |-> Strip(b.description),
     prayer_durations |-> b.prayer_durations,
     prayer_overrides |-> b.prayer_overrides]

\* QalibSerializer._fixed_end_time
FixedEndTime(event) == (Some(event.anchor) + event.duration) % DayMinutes

\* QalibSerializer._format_task
FormatTask(task) ==
    LET occurrence_value ==
            IF task.total_occurrences # {} THEN task.total_occurrences
            ELSE task.remaining_occurrences
        prefix == IF occurrence_value # {}
                  THEN <<"-", " ", "[">> \o ToStr(Some(occurrence_value)) \o <<"]">>
                  ELSE <<"-", " ", "[", "]">>
        body == IF task.note # {} THEN task.label \o <<" ", ":", ":", " ">> \o Some(task.note)
                ELSE task.label
    IN RStrip(prefix \o <<" ">> \o body)

\* _fmt_ref of QalibSerializer._format_prayer_bound_event
FmtRef(value) ==
    CASE value.tag = "none" -> <<>>
      [] value.tag = "time" -> FormatHhmm(value.time)
      [] value.tag = "text" -> value.text

\* QalibSerializer._format_prayer_bound_event
FormatPrayerBoundEvent(event) ==
    IF event.end_ref # QNone
    THEN Strip(FmtRef(event.start_ref) \o <<".", ".">> \o FmtRef(event.end_ref)
               \o <<" ">> \o event.name)
    ELSE Strip(FmtRef(event.start_ref) \o <<" ", "+">> \o FormatDurationToken(event.duration)
               \o <<" ">> \o event.name)

\* render, the line of one event
EventLine(event) ==
    CASE event.kind = "fixed" ->
            RStrip(FormatHhmm(Some(event.anchor)) \o <<" ">> \o FormatHhmm(FixedEndTime(event))
                   \o <<" ">> \o event.name)
      [] event.kind = "prayer_bound" -> RStrip(FormatPrayerBoundEvent(event))
      [] OTHER -> RStrip(FormatDurationToken(event.duration) \o <<" ">> \o event.name)

\* render, the lines of the events from position k on, with their tasks
RECURSIVE EventLines(_, _)
EventLines(events, k) ==
    IF k > Len(events) THEN <<>>
    ELSE <<EventLine(events[k])>>
         \o [i \in 1..Len(events[k].tasks) |-> FormatTask(events[k].tasks[i])]
         \o EventLines(events, k + 1)

\* render, the header lines of one dictionary of prayer settings
SettingLines(prefix, dict) ==
    LET keys == <<"fajr", "dhuhr", "asr", "maghrib", "isha">>
        line(k) == IF DictGet(dict, Text(keys[k])) = {} THEN <<>>
                   ELSE << <<"#", " ">> \o Text(prefix) \o Text(keys[k]) \o <<":", " ">>
                           \o Some(DictGet(dict, Text(keys[k]))) >>
    IN line(1) \o line(2) \o line(3) \o line(4) \o line(5)

\* QalibSerializer.render: the lines of the text
Render(t) ==
    << <<"#", " ">> \o Text("name:") \o <<" ">> \o t.name >>
    \o (IF t.description # <<>>
        THEN << <<"#", " ">> \o Text("description:") \o <<" ">> \o t.description >>
        ELSE <<>>)
    \o SettingLines("prayer_durations.", t.prayer_durations)
    \o SettingLines("prayer_overrides.", t.prayer_overrides)
    \o <<FormatHhmm(t.start_time)>>
    \o EventLines(t.events, 1)

\* no parse is running
QalibIdle ==
    /\ raw = <<>>
    /\ lineno = 0
    /\ builder = NewBuilder(<<>>)
    /\ parsed = <<>>
    /\ qerror = ""
    /\ qpc = "idle"

\* the prayer cache is not in use
\* the threads that call put: the caller of get_schedule and the worker of
\* _ensure_prefetch
Threads == {"caller", "prefetch"}

\* no thread is in put, nothing is queued, there is no file
WriterIdle ==
    /\ thread = [t \in Threads |-> [pc |-> "idle", snapshot |-> <<>>, future |-> 0]]
    /\ executor = <<>>
    /\ disk = {}
    /\ pending = 0

StoreIdle ==
    /\ cache = {}
    /\ max_days = 1
    /\ call = [op |-> "none"]
    /\ WriterIdle

----------------------------------------------------------------------------
(* The state machine: validate, then one call of build_plan stepped per   *)
(* template event and per iteration of the relative loop.  build_plan is  *)
(* also run on templates that validate rejects.                           *)

InitFrom(templates, starts, schedules, settings) ==
    /\ \E t \in templates, st \in starts :
          /\ template = [start_time |-> st, events |-> [k \in 1..Len(t) |-> k]]
          /\ heap = [k \in 1..Len(t) |-> [t[k] EXCEPT !.name = EventNames[k]]]
    /\ schedule \in schedules
    /\ durations \in settings
    /\ cursor = 0
    /\ plan = <<>>
    /\ prayer_slots = <<>>
    /\ prayer_index = 0
    /\ ev = 0
    /\ remaining = 0
    /\ pc = "idle"
    /\ issues = <<>>
    /\ warnings = <<>>
    /\ outcome = [kind |-> "none", list |-> <<>>]
    /\ results = <<>>
    /\ QalibIdle
    /\ StoreIdle

InitWith(templates, schedules, settings) ==
    InitFrom(templates, StartTimes, schedules, settings)

Init == InitWith(Templates, Schedules, DurationSettings)

InitLive ==
    InitWith(LiveTemplates, {sch \in Schedules : sch["Dhuhr"] < 36}, {[p \in LabelSet |-> 2]})

\* the inputs of the runs of validate alone: wake times on both sides of
\* Fajr minus 20 minutes; durations that reach, stay under and pass 24
\* hours; Fixed events that nest, touch and overlap; anchored placeholders
\* before, inside and past their window; ranges that wrap, that lack a
\* start and whose references do not resolve
CheckedStarts == {28, 29, 30}

CheckedChoices ==
    {Relative(d) : d \in {0, 1, 3, 141}}
    \cup {Fixed(29, 6), Fixed(31, 1), Fixed(32, 3), Fixed(29, -1)}
    \cup {Prayer("Fajr", {a}, 2) : a \in {29, 31, 32}}
    \cup {Prayer("Fajr", {33}, 0), Prayer("isha", {43}, 2), Prayer("Dhuhr", {}, 0)}
    \cup {PrayerBound(OffsetRef("Dhuhr", -2), PrayerRef("Fajr"), 0),
          PrayerBound(NoRef, TimeRef(30), 0),
          PrayerBound(PrayerRef("Fajr"), NoRef, 2),
          PrayerBound(PrayerRef("Fajr"), NoRef, 0),
          PrayerBound(PrayerRef("Sunrise"), TimeRef(34), 0),
          PrayerBound(TimeRef(29), PrayerRef("Noon"), 0),
             PrayerBound(OffsetRef("Isha", MaxOffset), PrayerRef("Fajr"), 0)}

CheckedTemplates ==
    UNION { [1..n -> CheckedChoices] : n \in 0..MaxChecked }

InitChecked ==
    InitFrom(CheckedTemplates, CheckedStarts, {sch \in Schedules : sch["Fajr"] = 30},
             {[p \in LabelSet |-> 1]})

\* two calls of build_plan: the reduced templates under every schedule and
\* duration setting
InitTwice == InitWith(LiveTemplates, Schedules, DurationSettings)

Inputs == <<template, schedule, durations>>

\* the helpers' result becomes the state; an exception ends the call
Commit(s, next_pc) ==
    /\ cursor' = s.cursor
    /\ plan' = s.plan
    /\ prayer_slots' = s.slots
    /\ prayer_index' = s.idx
    /\ heap' = s.heap
    /\ pc' = IF s.err THEN "error" ELSE next_pc

\* build_plan up to the main loop: cursor, plan and prayer slots
Setup ==
    /\ cursor' = template.start_time
    /\ plan' = <<>>
    /\ prayer_slots' = PrayerSlots(schedule, durations)
    /\ prayer_index' = 0
    /\ ev' = 0
    /\ remaining' = 0
    /\ pc' = "loop"
    /\ UNCHANGED <<Store, Qalib, Inputs, heap, issues, warnings, outcome, results>>

\* TemplateValidator.validate(template, prayers)
Validate ==
    /\ pc = "idle"
    /\ issues' = Issues(template, heap, schedule)
    /\ warnings' = Warnings(template, heap, schedule)
    /\ outcome' = Outcome(issues', warnings')
    /\ pc' = "validated"
    /\ UNCHANGED <<Store, Qalib, Inputs, heap, cursor, plan, prayer_slots, prayer_index, ev,
                   remaining, results>>

BuildPlan ==
    /\ pc = "validated"
    /\ Setup

\* a second call of build_plan with the objects of the first
BuildPlanAgain ==
    /\ pc = "done"
    /\ Len(results) = 1
    /\ Setup

\* the event the main loop is about to process
AtEvent(kind) ==
    /\ pc = "loop"
    /\ ev < Len(template.events)
    /\ heap[template.events[ev + 1]].kind = kind

\* flush_prayers(cursor.position) at the head of the loop body
Flushed == FlushPrayers(Local, cursor)

\* a step of the main loop other than a relative event: the flush, then the
\* branch of _schedule_event (skipped when the flush raised)
SchedulePrayerBound ==
    /\ AtEvent("prayer_bound")
    /\ \E f \in {Flushed} :
         \E s \in {IF f.err THEN f
                    ELSE SchedulePrayerBoundEvent(f, template.events[ev + 1], schedule)} :
            Commit(s, "loop")
    /\ ev' = ev + 1
    /\ UNCHANGED <<Store, Qalib, Inputs, remaining, issues, warnings, outcome, results>>

SchedulePrayerPlaceholder ==
    /\ AtEvent("prayer")
    /\ \E f \in {Flushed} :
         \E s \in {IF f.err THEN f
                    ELSE SchedulePrayerEvent(f, heap[template.events[ev + 1]])} :
            Commit(s, "loop")
    /\ ev' = ev + 1
    /\ UNCHANGED <<Store, Qalib, Inputs, remaining, issues, warnings, outcome, results>>

ScheduleFixed ==
    /\ AtEvent("fixed")
    /\ \E f \in {Flushed} :
         \E s \in {IF f.err THEN f ELSE ScheduleFixedEvent(f, template.events[ev + 1])} :
            Commit(s, "loop")
    /\ ev' = ev + 1
    /\ UNCHANGED <<Store, Qalib, Inputs, remaining, issues, warnings, outcome, results>>

\* a relative event: flush, then enter the loop with remaining = duration
ScheduleRelative ==
    /\ AtEvent("relative")
    /\ \E f \in {Flushed}, d \in {heap[template.events[ev + 1]].duration} :
          /\ Commit(f, IF d > 0 THEN "relative" ELSE "loop")
          /\ remaining' = d
          /\ ev' = IF d > 0 THEN ev ELSE ev + 1
    /\ UNCHANGED <<Store, Qalib, Inputs, issues, warnings, outcome, results>>

RelativeLoop ==
    /\ pc = "relative"
    /\ remaining > 0
    /\ \E r \in {RelativeIteration(Local, template.events[ev + 1], remaining)} :
          /\ Commit(r.s, IF r.remaining > 0 THEN "relative" ELSE "loop")
          /\ remaining' = r.remaining
          /\ ev' = IF r.remaining > 0 THEN ev ELSE ev + 1
    /\ UNCHANGED <<Store, Qalib, Inputs, issues, warnings, outcome, results>>

\* after the last event: the remaining prayers, then return plan
Finish ==
    /\ pc = "loop"
    /\ ev >= Len(template.events)
    /\ \E s \in {ScheduleRemaining(Local)} :
          /\ Commit(s, "done")
          /\ results' = IF s.err THEN results ELSE Append(results, s.plan)
    /\ UNCHANGED <<Store, Qalib, Inputs, ev, remaining, issues, warnings, outcome>>

Next ==
    \/ Validate
    \/ BuildPlan
    \/ SchedulePrayerBound
    \/ SchedulePrayerPlaceholder
    \/ ScheduleFixed
    \/ ScheduleRelative
    \/ RelativeLoop
    \/ Finish

Spec == Init /\ [][Next]_vars

\* build_plan is sequential code: it keeps running until it returns or raises
SpecLive == InitLive /\ [][Next]_vars /\ WF_vars(Next)

\* validate on its own
NextChecked == Validate

SpecChecked == InitChecked /\ [][NextChecked]_vars

NextTwice == Next \/ BuildPlanAgain

SpecTwice == InitTwice /\ [][NextTwice]_vars

----------------------------------------------------------------------------
(* The parser as a state machine: QalibParser.parse consumes the lines of  *)
(* a text one by one and builds the template; QalibSerializer.render turns *)
(* the template into a text, which is parsed again.                        *)

\* the largest number of lines after the wake-up line of a text
MaxLines == 3

\* the lines the texts are made of
LineChoices ==
    {Join(<<<<".", "3", "0">>, Text("Warmup")>>),
     Join(<<<<"1", ".", "5">>, <<"9", ".", "0", "0">>, Text("Talk")>>),
     Join(<<<<"7", ":", "0", "0">>, <<"0", "7", ":", "4", "5">>, Text("Breakfast")>>),
     Join(<<<<"2", "3", ":", "3", "0">>, <<"0", "0", ".", "1", "5">>, Text("Day")>>),
     Join(<<<<"0", "6", ":", "3", "0">>, <<"0", "6", ":", "5", "0">>, Text("Fajr")>>),
     Join(<<<<"2", "5", ":", "0", "0">>, <<"2", "6", ":", "0", "0">>, Text("Trip")>>),
     Join(<<<<"0", "7", ":", "0", "0">>, <<"+", "2", "5">>, Text("Duhr")>>),
     Join(<<Text("Fajr"), <<"+", "2">>, Text("Warmup")>>),
     Join(<<<<".", ".">> \o Text("Maghrib") \o <<"-", "5", "0">>, Text("Talk")>>),
     Join(<<<<"-">>, <<"[", "5", "]">>, Text("Stretch"), <<":", ":">>, Text("Day")>>),
     Join(<<<<"-">>, <<"[", "0", "]">>, Text("Stretch")>>),
     Join(<<<<"-">>, <<"[", "1", "/", "2", "]">>, Text("Stretch")>>),
     <<"5", ".", "3", "0">>}

\* the texts given to parse: with or without the wake-up line 05:00 first
Texts ==
    {head \o body : head \in {<<>>, << <<"0", "5", ":", "0", "0">> >>},
                    body \in UNION { [1..n -> LineChoices] : n \in 0..MaxLines }}

\* where parse stands: at the end of the text ("build"), or at a line for
\* which consume takes the branch named
Position(b, text, n) == IF n >= Len(text) THEN "build" ELSE LineKind(b, text[n + 1])

\* no template is being validated or scheduled
PipelineIdle ==
    /\ template = [start_time |-> 0, events |-> <<>>]
    /\ heap = <<>>
    /\ schedule = [p \in LabelSet |-> 0]
    /\ durations = [p \in LabelSet |-> 0]
    /\ cursor = 0
    /\ plan = <<>>
    /\ prayer_slots = <<>>
    /\ prayer_index = 0
    /\ ev = 0
    /\ remaining = 0
    /\ pc = "idle"
    /\ issues = <<>>
    /\ warnings = <<>>
    /\ outcome = [kind |-> "none", list |-> <<>>]
    /\ results = <<>>

\* parse(raw, default_name="Fallback") is called
InitQalib ==
    /\ PipelineIdle
    /\ StoreIdle
    /\ raw \in Texts
    /\ lineno = 0
    /\ builder = NewBuilder(<<"F">>)
    /\ parsed = <<>>
    /\ qerror = ""
    /\ qpc = Position(builder, raw, 0)

\* builder.consume(line, idx): an exception ends the parse
ConsumeLine ==
    /\ \E r \in {Consume(builder, raw[lineno + 1])} :
          /\ builder' = r.builder
          /\ qerror' = r.error
          /\ qpc' = IF r.error # "" THEN "failed" ELSE Position(r.builder, raw, lineno + 1)
    /\ lineno' = lineno + 1
    /\ UNCHANGED <<raw, parsed, Pipeline, Store>>

\* a blank line, a header line or a comment
ConsumeHeader ==
    /\ qpc \in {"blank", "name", "description", "prayer_durations", "prayer_overrides",
               "comment"}
    /\ ConsumeLine

ConsumeTask == qpc = "task" /\ ConsumeLine

ConsumeFixed == qpc = "fixed" /\ ConsumeLine

ConsumeFixedDuration == qpc = "fixed_duration" /\ ConsumeLine

ConsumePrayerDuration == qpc = "prayer_duration" /\ ConsumeLine

ConsumeRange == qpc = "range" /\ ConsumeLine

ConsumeStart == qpc = "start" /\ ConsumeLine

ConsumeRelative == qpc = "relative" /\ ConsumeLine

\* builder.build() after the last line
BuildTemplate ==
    /\ qpc = "build"
    /\ IF builder.start_time = {}
       THEN /\ qerror' = "QalibParseError"
            /\ qpc' = "failed"
            /\ parsed' = parsed
       ELSE /\ qerror' = qerror
            /\ qpc' = IF parsed = <<>> THEN "built" ELSE "done"
            /\ parsed' = Append(parsed, Build(builder))
    /\ UNCHANGED <<raw, lineno, builder, Pipeline, Store>>

\* parse(render(t), default_name="Other") is called for the template built
RenderTemplate ==
    /\ qpc = "built"
    /\ \E text \in {Render(parsed[1])} :
          /\ raw' = text
          /\ qpc' = Position(NewBuilder(<<"O">>), text, 0)
    /\ lineno' = 0
    /\ builder' = NewBuilder(<<"O">>)
    /\ UNCHANGED <<parsed, qerror, Pipeline, Store>>

NextQalib ==
    \/ ConsumeHeader
    \/ ConsumeTask
    \/ ConsumeFixed
    \/ ConsumeFixedDuration
    \/ ConsumePrayerDuration
    \/ ConsumeRange
    \/ ConsumeStart
    \/ ConsumeRelative
    \/ BuildTemplate
    \/ RenderTemplate

SpecQalib == InitQalib /\ [][NextQalib]_vars


\* ---------------------------------------------------------------------
\* The prayer cache: PrayerCache of services/prayer.py.  Keys and the
\* stored times are strings, written as sequences of characters; a date
\* is a record of year, month and day; a coordinate is given in
\* ten-thousandths of a degree, inside a set that is empty for None.
\* ---------------------------------------------------------------------

\* str.split(sep, maxsplit)
RECURSIVE SplitAt(_, _, _)
SplitAt(s, sep, maxsplit) ==
    LET i == Find(s, sep)
    IN IF maxsplit = 0 \/ i = 0 THEN <<s>>
       ELSE <<Before(s, i)>> \o SplitAt(After(s, i), sep, maxsplit - 1)

\* date.isoformat: YYYY-MM-DD
IsoFormat(day) ==
    [i \in 1..(4 - Len(ToStr(day.year))) |-> "0"] \o ToStr(day.year)
        \o <<"-">> \o TwoDigits(day.month) \o <<"-">> \o TwoDigits(day.day)

\* date.fromisoformat of YYYY-MM-DD: the set holding the date, empty for a
\* ValueError
FromIsoFormat(s) ==
    IF /\ Len(s) = 10 /\ s[5] = "-" /\ s[8] = "-"
       /\ AllDigits(SubSeq(s, 1, 4)) /\ AllDigits(SubSeq(s, 6, 7)) /\ AllDigits(SubSeq(s, 9, 10))
    THEN LET year == ToInt(SubSeq(s, 1, 4))
             month == ToInt(SubSeq(s, 6, 7))
             leap == year % 4 = 0 /\ (year % 100 # 0 \/ year % 400 = 0)
             last == IF month = 2 THEN (IF leap THEN 29 ELSE 28)
                     ELSE IF month \in {4, 6, 9, 11} THEN 30 ELSE 31
         IN IF year >= 1 /\ month \in 1..12 /\ ToInt(SubSeq(s, 9, 10)) \in 1..last
            THEN {[year |-> year, month |-> month, day |-> ToInt(SubSeq(s, 9, 10))]}
            ELSE {}
    ELSE {}

\* date.__gt__
Later(a, b) ==
    \/ a.year > b.year
    \/ a.year = b.year /\ a.month > b.month
    \/ a.year = b.year /\ a.month = b.month /\ a.day > b.day

\* f"{x:.3f}" of a coordinate x >= 0 that is not halfway between two
\* thousandths
Fixed3(x) ==
    LET thousandths == (x + 5) \div 10
        fraction == ToStr(thousandths % 1000)
    IN ToStr(thousandths \div 1000) \o <<".">>
          \o [i \in 1..(3 - Len(fraction)) |-> "0"] \o fraction

\* PrayerCache._key
Key(provider, day, location) ==
    LET lat == IF location.latitude = {} THEN 0 ELSE Some(location.latitude)
        lon == IF location.longitude = {} THEN 0 ELSE Some(location.longitude)
    IN provider \o <<":">> \o IsoFormat(day) \o <<":">> \o Fixed3(lat) \o <<":">> \o Fixed3(lon)

\* _prune_locked sorting the entries of a bucket from the earliest day on
PruneLockedAscending(c, m) ==
    LET split == {<<kv, SplitAt(kv[1], ":", 3)>> : kv \in c}
        skipped == {e \in split : Len(e[2]) # 4}
        dated == {e \in split \ skipped : FromIsoFormat(e[2][2]) # {}}
        entries == {[item |-> e[1],
                     bucket_key |-> e[2][1] \o <<":">> \o e[2][3] \o <<":">> \o e[2][4],
                     day_value |-> Some(FromIsoFormat(e[2][2]))] : e \in dated}
        ahead(entry) == {o \in entries : o.bucket_key = entry.bucket_key
                                            /\ Later(entry.day_value, o.day_value)}
    IN {e[1] : e \in skipped} \cup {entry.item : entry \in {o \in entries : Cardinality(ahead(o)) < m}}

\* PrayerCache._prune_locked on the dict c with max_days = m: a key of
\* other than four parts is left alone, a key whose second part is not a
\* date is popped, and of the keys of one bucket those after the first m,
\* counted from the latest day, are popped
PruneLocked(c, m) ==
    LET split == {<<kv, SplitAt(kv[1], ":", 3)>> : kv \in c}
        skipped == {e \in split : Len(e[2]) # 4}
        dated == {e \in split \ skipped : FromIsoFormat(e[2][2]) # {}}
        entries == {[item |-> e[1],
                     bucket_key |-> e[2][1] \o <<":">> \o e[2][3] \o <<":">> \o e[2][4],
                     day_value |-> Some(FromIsoFormat(e[2][2]))] : e \in dated}
        ahead(entry) == {o \in entries : o.bucket_key = entry.bucket_key
                                            /\ Later(o.day_value, entry.day_value)}
    IN {e[1] : e \in skipped} \cup {entry.item : entry \in {o \in entries : Cardinality(ahead(o)) < m}}

\* to_dict writing "" for every sunrise
ToDictWithoutSunrise(s) ==
    [fajr |-> FormatHhmm(s.fajr), dhuhr |-> FormatHhmm(s.dhuhr), asr |-> FormatHhmm(s.asr),
     maghrib |-> FormatHhmm(s.maghrib), isha |-> FormatHhmm(s.isha), sunrise |-> <<>>]

\* PrayerSchedule.to_dict: strftime("%H:%M") of every time, "" for no sunrise
ToDict(s) ==
    [fajr |-> FormatHhmm(s.fajr), dhuhr |-> FormatHhmm(s.dhuhr), asr |-> FormatHhmm(s.asr),
     maghrib |-> FormatHhmm(s.maghrib), isha |-> FormatHhmm(s.isha),
     sunrise |-> IF s.sunrise = {} THEN <<>> ELSE FormatHhmm(Some(s.sunrise))]

\* PrayerSchedule.from_dict: parse_hhmm of every time, None for an empty sunrise
FromDict(values) ==
    [fajr |-> Some(ParseHhmm(values.fajr)), dhuhr |-> Some(ParseHhmm(values.dhuhr)),
     asr |-> Some(ParseHhmm(values.asr)), maghrib |-> Some(ParseHhmm(values.maghrib)),
     isha |-> Some(ParseHhmm(values.isha)),
     sunrise |-> IF values.sunrise = <<>> THEN {} ELSE ParseHhmm(values.sunrise)]

\* PrayerCache.get: the set holding the schedule, empty for None
Get(c, provider, day, location) ==
    LET entry == DictGet(c, Key(provider, day, location))
    IN IF entry = {} THEN {} ELSE {FromDict(Some(entry).times)}

\* PrayerCache.put: the dict afterwards
Put(c, m, provider, day, location, s) ==
    PruneLocked(DictSet(c, Key(provider, day, location),
                        [day |-> IsoFormat(day), times |-> ToDict(s)]), m)

\* the latest day a put names is the 8th of January 2024 plus MaxDay
MaxDay == 3

\* the days around the turn from one to two digits
CacheDays == {[year |-> 2024, month |-> 1, day |-> 8 + d] : d \in 1..MaxDay}

\* the providers and places of the calls: two places whose coordinates
\* agree to three decimals, and a second provider at a place without
\* coordinates
CachePlaces ==
    {[provider |-> <<"v", "a", "k", "i", "t">>,
      location |-> [latitude |-> {410082}, longitude |-> {289784}]],
     [provider |-> <<"v", "a", "k", "i", "t">>,
      location |-> [latitude |-> {410084}, longitude |-> {289781}]],
     [provider |-> <<"a", "l", "a", "d", "h", "a", "n">>,
      location |-> [latitude |-> {}, longitude |-> {}]]}

\* two schedules, with and without a sunrise
CacheSchedules ==
    {[fajr |-> 305, dhuhr |-> 750, asr |-> 930, maghrib |-> 1085, isha |-> 1185, sunrise |-> {}],
     [fajr |-> 306, dhuhr |-> 751, asr |-> 931, maghrib |-> 1084, isha |-> 1184, sunrise |-> {395}]}

\* a dict written to the file earlier: a key of another format, a key
\* without a date, and more days of one bucket than max_days allows
CacheFile ==
    LET record(d) == [day |-> IsoFormat(d), times |-> ToDict(CHOOSE s \in CacheSchedules : s.sunrise = {})]
        place == CHOOSE pl \in CachePlaces : pl.location.latitude # {}
    IN {<<Key(place.provider, d, place.location), record(d)>> : d \in CacheDays}
          \cup {<<<<"v", "a", "k", "i", "t", ":", "9">>, record(CHOOSE d \in CacheDays : TRUE)>>,
                <<<<"v", "a", "k", "i", "t", ":", "9", ":", "0", ":", "0">>,
                  record(CHOOSE d \in CacheDays : TRUE)>>}

\* PrayerCache(path, 0) where the file holds CacheFile, or
\* PrayerCache(path, 2) where there is no file
InitCache ==
    /\ PipelineIdle
    /\ QalibIdle
    /\ \E start \in {[n |-> 0, file |-> CacheFile], [n |-> 2, file |-> {}]} :
          /\ max_days = (IF start.n < 1 THEN 1 ELSE start.n)
          /\ cache = PruneLocked(start.file, max_days)
    /\ call = [op |-> "none"]
    /\ WriterIdle

\* put(provider, day, location, schedule)
CachePut ==
    /\ \E place \in CachePlaces, day \in CacheDays, s \in CacheSchedules :
          /\ cache' = Put(cache, max_days, place.provider, day, place.location, s)
          /\ call' = [op |-> "put", provider |-> place.provider, day |-> day,
                      location |-> place.location, schedule |-> {s}, result |-> {}]
    /\ UNCHANGED <<max_days, Writer, Pipeline, Qalib>>

\* get(provider, day, location)
CacheGet ==
    /\ \E place \in CachePlaces, day \in CacheDays :
          call' = [op |-> "get", provider |-> place.provider, day |-> day,
                   location |-> place.location, schedule |-> {},
                   result |-> Get(cache, place.provider, day, place.location)]
    /\ UNCHANGED <<cache, max_days, Writer, Pipeline, Qalib>>

NextCache ==
    \/ CachePut
    \/ CacheGet

SpecCache == InitCache /\ [][NextCache]_vars

----------------------------------------------------------------------------
(* put from two threads: the dict is changed and dumped under the lock, the *)
(* text is handed to the single-worker executor after the lock is released, *)
(* and the worker writes the texts to the file in the order of submission.  *)

\* json.dumps(self._cache): the text of a JSON object, the value of every key
Dumps(c) == [key \in {kv[1] : kv \in c} |-> Some(DictGet(c, key))]

\* json.loads(text) in _load: the dict of the object
Loads(text) == {<<key, text[key]>> : key \in DOMAIN text}

\* PrayerCache(path, 0) where the file holds CacheFile, or
\* PrayerCache(path, 2) where there is no file; no put has been called
InitPersist ==
    /\ PipelineIdle
    /\ QalibIdle
    /\ \E start \in {[n |-> 0, file |-> {Dumps(CacheFile)}], [n |-> 2, file |-> {}]} :
          /\ max_days = (IF start.n < 1 THEN 1 ELSE start.n)
          /\ disk = start.file
          /\ cache = PruneLocked(IF disk = {} THEN {} ELSE Loads(Some(disk)), max_days)
    /\ call = [op |-> "none"]
    /\ thread = [t \in Threads |-> [pc |-> "idle", snapshot |-> <<>>, future |-> 0]]
    /\ executor = <<>>
    /\ pending = 0

\* put, the block under the lock: the record is stored, the dict pruned and
\* dumped
PutLocked(t) ==
    /\ thread[t].pc = "idle"
    /\ \E place \in CachePlaces, day \in CacheDays, s \in CacheSchedules :
          /\ cache' = Put(cache, max_days, place.provider, day, place.location, s)
          /\ call' = [op |-> "put", provider |-> place.provider, day |-> day,
                      location |-> place.location, schedule |-> {s}, result |-> {}]
    /\ thread' = [thread EXCEPT ![t] = [pc |-> "persist", snapshot |-> Dumps(cache'),
                                       future |-> 0]]
    /\ UNCHANGED <<max_days, executor, disk, pending, Pipeline, Qalib>>

\* _persist_async after the lock is released: executor.submit(_write, snapshot)
Submit(t) ==
    /\ thread[t].pc = "persist"
    /\ executor' = Append(executor, [payload |-> thread[t].snapshot, done |-> FALSE])
    /\ thread' = [thread EXCEPT ![t].pc = "assign", ![t].future = Len(executor')]
    /\ UNCHANGED <<cache, max_days, call, disk, pending, Pipeline, Qalib>>

\* _persist_async: self._pending = <the future>, and put returns
AssignPending(t) ==
    /\ thread[t].pc = "assign"
    /\ pending' = thread[t].future
    /\ thread' = [thread EXCEPT ![t].pc = "returned"]
    /\ UNCHANGED <<cache, max_days, call, executor, disk, Pipeline, Qalib>>

\* the jobs of the executor that have not run
Queued == {i \in 1..Len(executor) : ~executor[i].done}

\* _write(payload) on the executor's worker: the oldest job that has not run
\* writes its text to the file
Write ==
    /\ Queued # {}
    /\ \E i \in Queued :
          /\ \A j \in Queued : i <= j
          /\ disk' = {executor[i].payload}
          /\ executor' = [executor EXCEPT ![i].done = TRUE]
    /\ UNCHANGED <<cache, max_days, call, thread, pending, Pipeline, Qalib>>

CallerPut == PutLocked("caller")

PrefetchPut == PutLocked("prefetch")

CallerSubmit == Submit("caller")

PrefetchSubmit == Submit("prefetch")

CallerReturn == AssignPending("caller")

PrefetchReturn == AssignPending("prefetch")

NextPersist ==
    \/ CallerPut
    \/ PrefetchPut
    \/ CallerSubmit
    \/ PrefetchSubmit
    \/ CallerReturn
    \/ PrefetchReturn
    \/ Write

SpecPersist == InitPersist /\ [][NextPersist]_vars


\* the plan as Python's == sees it: the items with their events by value
PlanValue(p, h) == [k \in 1..Len(p) |-> [event |-> h[p[k].event], start |-> p[k].start, end |-> p[k].end]]

Done == pc = "done"

----------------------------------------------------------------------------
(* Properties of the returned plan *)

IsPrayerItem(item) == heap[item.event].kind = "prayer"

\* the positions of the plan holding the entry of prayer p
EntriesOf(p) ==
    {k \in 1..Len(plan) : IsPrayerItem(plan[k]) /\ Lower(heap[plan[k].event].prayer) = Lower(p)}

\* the positions of the template holding an event of the given kind
EventsOfKind(kind) ==
    {k \in 1..Len(template.events) : heap[template.events[k]].kind = kind}

Disjoint(a, b) == a.end <= b.start \/ b.end <= a.start

\* C1: no two distinct items of the plan returned by build_plan overlap:
\* a.end <= b.start or b.end <= a.start.
C1_NonOverlap ==
    Done => \A a, b \in 1..Len(plan) : a # b => Disjoint(plan[a], plan[b])

\* C2: the items of the plan returned by build_plan are in non-decreasing
\* order of start timestamp.
C2_SortedOrder ==
    Done => \A k \in 1..Len(plan) - 1 : plan[k].start <= plan[k + 1].start

\* C3: the plan returned by build_plan contains exactly five prayer entries,
\* exactly one for each of Fajr, Dhuhr, Asr, Maghrib and Isha.
C3_PrayerCompleteness ==
    Done => /\ \A p \in LabelSet : Cardinality(EntriesOf(p)) = 1
            /\ Cardinality({k \in 1..Len(plan) : IsPrayerItem(plan[k])}) = 5

\* a returned plan of a template with several Prayer placeholders, one of
\* them for a prayer that the flush had already placed
C3_Witness ==
    /\ Done
    /\ Cardinality(EventsOfKind("prayer")) >= 2
    /\ template.start_time > schedule["Fajr"]
    /\ \E k \in EventsOfKind("prayer") : Lower(heap[template.events[k]].prayer) = "fajr"
    /\ Cardinality({k \in 1..Len(plan) : IsPrayerItem(plan[k])}) = 5

\* the template positions of the Prayer placeholders for prayer p
PlaceholdersOf(p) ==
    {k \in EventsOfKind("prayer") : Lower(heap[template.events[k]].prayer) = Lower(p)}

C5_Terminates == <>(pc = "done")

\* a plan returned for a template that validate rejects on several counts
C5_Witness ==
    /\ Done
    /\ Len(results) = 1
    /\ template.start_time > schedule["Fajr"]
    /\ \E k \in 1..Len(template.events) : heap[template.events[k]].duration <= 0
    /\ \E k \in 1..Len(issues) : issues[k].check = "positive"
    /\ \E k \in 1..Len(issues) : issues[k].check = "wake"

\* C6: a second call of build_plan with the same template, schedule and
\* duration settings (the very objects of the first call) returns a plan
\* equal to the first: same items, same order, same starts, ends, events.
C6_SameInputsSamePlan ==
    Len(results) = 2 => PlanValue(results[1], heap) = PlanValue(results[2], heap)

\* two returned plans of a template in which a placeholder corrected an
\* auto-placed prayer and a Fixed or PrayerBound event pushed pending slots
C6_Witness ==
    /\ Len(results) = 2
    /\ Len(results[2]) > 5
    /\ EventsOfKind("prayer") # {}
    /\ EventsOfKind("fixed") \cup EventsOfKind("prayer_bound") # {}
    /\ \E k \in 1..5 : prayer_slots[k].start # schedule[PrayerLabels[k]]

\* what build_plan and validate are given
InputObjects ==
    <<template, schedule, durations,
      [k \in 1..Len(template.events) |-> heap[template.events[k]]]>>

\* C7: build_plan and validate leave their inputs unchanged: the template's
\* start_time and event list, every field of every template event, the
\* PrayerSchedule and the duration settings are the same after every step.
C7_InputsUnchanged == [][InputObjects' = InputObjects]_vars

\* a returned plan whose prayer entries were corrected in place (a duration
\* other than the configured one) and whose pending slots were pushed, for a
\* template that validate accepted
C7_Witness ==
    /\ Done
    /\ issues = <<>>
    /\ \E k \in 1..Len(plan) :
          /\ IsPrayerItem(plan[k])
          /\ heap[plan[k].event].duration # durations[heap[plan[k].event].prayer]
    /\ \E k \in 1..5 : prayer_slots[k].start # schedule[PrayerLabels[k]]

\* the template of the Warmup example, planned: start_time 05:00, the single
\* Relative event Warmup of 30 minutes, Fajr at 05:00 lasting 10 minutes
C8_Case ==
    /\ Done
    /\ template.start_time = 30
    /\ Len(template.events) = 1
    /\ heap[template.events[1]] = [Relative(3) EXCEPT !.name = "Warmup"]
    /\ schedule["Fajr"] = 30
    /\ durations["Fajr"] = 1

\* plan item k carries an event of the given name over [start, end)
ItemIs(k, name, start, end) ==
    /\ k <= Len(plan)
    /\ heap[plan[k].event].name = name
    /\ plan[k].start = start
    /\ plan[k].end = end

IsBlockItem(i) ==
    /\ heap[plan[i].event].kind \in {"fixed", "prayer_bound"}
    /\ plan[i].end > plan[i].start

\* prayer p was still pending when the event of plan item i was placed (its
\* entry comes later in the plan) and its natural start lies in the item's
\* interval
PendingInside(i, p) ==
    /\ IsBlockItem(i)
    /\ plan[i].start <= schedule[p]
    /\ schedule[p] < plan[i].end
    /\ \A j \in EntriesOf(p) : j > i

\* the template position of the event whose copy is plan item i
PositionOf(i) ==
    CHOOSE k \in 1..Len(template.events) : EventNames[k] = heap[plan[i].event].name

\* placeholders for p later in the template than the event of plan item i
LaterPlaceholders(i, p) == {k \in PlaceholdersOf(p) : k > PositionOf(i)}

\* p has exactly one entry, starting at the end of item i and lasting its
\* configured duration
PushedToEnd(i, p) ==
    /\ Cardinality(EntriesOf(p)) = 1
    /\ \A j \in EntriesOf(p) :
          /\ plan[j].start = plan[i].end
          /\ plan[j].end - plan[j].start = durations[p]

\* C9: a pending prayer whose natural start lies in the interval of a Fixed
\* or PrayerBound event of positive duration appears exactly once, at the
\* event's end, lasting its configured duration, unless a later anchored
\* placeholder overrides it.
C9_PushedUnlessAnchored ==
    Done => \A i \in 1..Len(plan) : \A p \in LabelSet :
              PendingInside(i, p) =>
                \/ PushedToEnd(i, p)
                \/ \E k \in LaterPlaceholders(i, p) : heap[template.events[k]].anchor # {}

\* the position of prayer p in the queue of slots
SlotIndex(p) == CHOOSE k \in 1..5 : Lower(PrayerLabels[k]) = Lower(p)

\* the loop is at an un-anchored Prayer placeholder with positive duration
\* whose prayer is still in the queue
AtPendingPlaceholder ==
    /\ AtEvent("prayer")
    /\ heap[template.events[ev + 1]].anchor = {}
    /\ heap[template.events[ev + 1]].duration > 0
    /\ \E k \in prayer_index + 1..5 :
          Lower(PrayerLabels[k]) = Lower(heap[template.events[ev + 1]].prayer)

\* the step appended, in queue order, the pending prayers up to the
\* placeholder's (and no further ones unless the flush itself went on), each
\* at its slot start, the placeholder's lasting d and the others their
\* configured duration
DequeuedInOrder ==
    LET event == heap[template.events[ev + 1]]
        target == SlotIndex(event.prayer)
        n == Len(plan)
        m == prayer_index' - prayer_index
    IN /\ prayer_index' >= target
       /\ ScheduledPrayers(Flushed, Lower(event.prayer)) = {} => prayer_index' = target
       /\ Len(plan') = n + m
       /\ \A k \in 1..n : plan'[k] = plan[k]
       /\ \A j \in 1..m :
             LET item == plan'[n + j]
                 slot == prayer_slots[prayer_index + j]
             IN /\ heap'[item.event].kind = "prayer"
                /\ heap'[item.event].prayer = slot.label
                /\ item.start = slot.start
                /\ item.end - item.start =
                      IF prayer_index + j = target THEN event.duration ELSE slot.duration
                /\ heap'[item.event].duration = item.end - item.start
       /\ Cardinality({k \in 1..n + m :
              /\ heap'[plan'[k].event].kind = "prayer"
              /\ Lower(heap'[plan'[k].event].prayer) = Lower(event.prayer)}) = 1

\* C10: an un-anchored Prayer placeholder for P with positive duration d,
\* reached while P is pending, first schedules in canonical order every
\* pending prayer before P and then P exactly once at its slot start with
\* end - start = d.
C10_DequeueInOrder == [][AtPendingPlaceholder => DequeuedInOrder]_vars

\* the loop just past a Dhuhr placeholder of 20 minutes met before Fajr: Fajr
\* was placed first, then Dhuhr at its natural time for 20 minutes instead of
\* the configured 10
C10_Witness ==
    /\ pc = "loop"
    /\ ev = 1
    /\ template.start_time = 28
    /\ heap[template.events[1]] = [Prayer("Dhuhr", {}, 2) EXCEPT !.name = EventNames[1]]
    /\ durations["Dhuhr"] = 1
    /\ Len(plan) = 2
    /\ ItemIs(1, "Fajr Prayer", schedule["Fajr"], schedule["Fajr"] + 1)
    /\ ItemIs(2, "Dhuhr Prayer", schedule["Dhuhr"], schedule["Dhuhr"] + 2)
    /\ prayer_index = 2

-----------------------------------------------------------------------------
(* Properties of validate *)

Validated == pc = "validated"

Raised == outcome.kind = "raise"

\* the template event at position k
EventAt(k) == heap[template.events[k]]

Positions == 1..Len(template.events)

\* some issue of the raised error comes from the given check
HasIssue(check) == \E i \in 1..Len(outcome.list) : Raised /\ outcome.list[i].check = check

\* some issue of the raised error comes from the given check and names the event
HasIssueNaming(check, name) ==
    \E i \in 1..Len(outcome.list) :
        Raised /\ outcome.list[i].check = check /\ outcome.list[i].event = name

\* the wake time is later than Fajr minus 20 minutes
LateWake == template.start_time > schedule["Fajr"] - MinWakeBuffer

\* the intervals [anchor, anchor + duration) of the Fixed events at i and j
\* have a common point
FixedOverlap(i, j) ==
    LET a == EventAt(i)
        b == EventAt(j)
    IN /\ i # j
       /\ a.kind = "fixed" /\ b.kind = "fixed"
       /\ a.duration > 0 /\ b.duration > 0
       /\ Some(a.anchor) < Some(b.anchor) + b.duration
       /\ Some(b.anchor) < Some(a.anchor) + a.duration

\* the running total of _validate_total_duration after the first n events
CountedTotal(n) ==
    TotalLoop([template EXCEPT !.events = SubSeq(@, 1, n)], heap, schedule, 1,
              [issues |-> <<>>, total |-> 0, cursor |-> template.start_time,
               overage_event |-> {}, overage_amount |-> 0]).total

\* the event at k is of a kind checked by its nominal duration and that
\* duration is zero or negative
NonPositive(k) ==
    /\ EventAt(k).kind # "prayer_bound" \/ EventAt(k).end_ref.tag = "none"
    /\ EventAt(k).duration <= 0

\* C11: when several hard checks are violated at once validate raises one
\* error whose issue list has an issue for every violated check, and it
\* returns the warning list only when no hard check is violated.
C11_AllIssuesReported ==
    Validated =>
      /\ LateWake => HasIssue("wake")
      /\ (\E i, j \in Positions : FixedOverlap(i, j)) => HasIssue("fixed_overlap")
      /\ CountedTotal(Len(template.events)) > DayLen => HasIssue("total")
      /\ \A k \in Positions : NonPositive(k) => HasIssueNaming("positive", EventAt(k).name)
      /\ outcome.kind = "return" =>
            /\ outcome.list = warnings
            /\ ~LateWake
            /\ \A i, j \in Positions : ~FixedOverlap(i, j)
            /\ CountedTotal(Len(template.events)) <= DayLen
            /\ \A k \in Positions : ~NonPositive(k)

\* a raised error for a template that is late, has overlapping Fixed
\* events and plans more than 24 hours: its list holds the three issues
C11_Witness ==
    /\ Validated
    /\ LateWake
    /\ \E i, j \in Positions : FixedOverlap(i, j)
    /\ CountedTotal(Len(template.events)) > DayLen
    /\ \A k \in Positions : ~NonPositive(k)
    /\ Raised
    /\ Len(outcome.list) = 3

\* C12: validate raises whenever start_time is later than Fajr minus 20
\* minutes (start_time equal to Fajr included) and reports no wake-time issue
\* when start_time is at or before Fajr minus 20 minutes.
C12_WakeBuffer ==
    Validated =>
      /\ template.start_time > schedule["Fajr"] - 2 => Raised /\ HasIssue("wake")
      /\ template.start_time <= schedule["Fajr"] - 2 => ~HasIssue("wake")

\* a raised error for a template that starts exactly at Fajr and has nothing
\* else wrong
C12_Witness ==
    /\ Validated
    /\ template.start_time = schedule["Fajr"]
    /\ Raised
    /\ Len(outcome.list) = 1
    /\ outcome.list[1].check = "wake"

\* taken in anchor order, the Fixed event at j starts at or after the end of
\* the Fixed event at i
StartsAfter(i, j) ==
    (EventAt(i).kind = "fixed" /\ EventAt(j).kind = "fixed" /\ i # j
        /\ Some(EventAt(i).anchor) <= Some(EventAt(j).anchor))
    => Some(EventAt(j).anchor) >= Some(EventAt(i).anchor) + EventAt(i).duration

\* C13: validate raises whenever the intervals of two Fixed events overlap,
\* whatever their order in the template, and reports no overlap issue when
\* in anchor order each Fixed event starts at or after the end of every
\* earlier one (touching intervals are accepted).
C13_FixedOverlap ==
    Validated =>
      /\ (\E i, j \in Positions : FixedOverlap(i, j)) => Raised /\ HasIssue("fixed_overlap")
      /\ (\A i, j \in Positions : StartsAfter(i, j)) => ~HasIssue("fixed_overlap")

\* a raised error for two overlapping Fixed events of which the later one
\* comes first in the template, and a third that touches the one and
\* overlaps the other: the issues name the two events that start inside
C13_Witness ==
    /\ Validated
    /\ Len(template.events) = 3
    /\ \A k \in Positions : EventAt(k).kind = "fixed"
    /\ Some(EventAt(1).anchor) > Some(EventAt(2).anchor)
    /\ FixedOverlap(1, 2)
    /\ Some(EventAt(3).anchor) = Some(EventAt(1).anchor) + EventAt(1).duration
    /\ FixedOverlap(2, 3)
    /\ Raised
    /\ Len(outcome.list) = 2
    /\ HasIssueNaming("fixed_overlap", EventAt(1).name)
    /\ HasIssueNaming("fixed_overlap", EventAt(3).name)

\* the sum of the nominal durations of the first n events
RECURSIVE NominalSum(_)
NominalSum(n) == IF n = 0 THEN 0 ELSE NominalSum(n - 1) + EventAt(n).duration

\* the positions whose addition leaves the running total above 24 hours
Over == {k \in Positions : CountedTotal(k) > DayLen}

\* C14: validate reports the total issue exactly when the sum of the event
\* durations exceeds 24 hours (exactly 24 hours is accepted); the issue
\* names the first event in template order whose addition takes the running
\* total above 24 hours and states by how much.
C14_TotalOver24h ==
    Validated =>
      LET n == Len(template.events)
          first == CHOOSE k \in Over : \A j \in Over : k <= j
      IN /\ (\A k \in Positions : EventAt(k).kind # "prayer_bound")
              => CountedTotal(n) = NominalSum(n)
         /\ CountedTotal(n) > DayLen => Raised
         /\ HasIssue("total") <=> CountedTotal(n) > DayLen
         /\ CountedTotal(n) > DayLen =>
               \A i \in 1..Len(outcome.list) :
                   outcome.list[i].check = "total" =>
                     /\ outcome.list[i].event = EventAt(first).name
                     /\ outcome.list[i].amount = CountedTotal(first) - DayLen

\* the error raised for 23:30 + 00:30 + 00:10 of planned time: the third
\* event, Study, takes the total ten minutes above 24 hours
C14_Witness ==
    /\ Validated
    /\ Len(template.events) = 3
    /\ \A k \in Positions : EventAt(k).kind = "relative"
    /\ CountedTotal(2) = DayLen
    /\ CountedTotal(3) = DayLen + 1
    /\ Raised
    /\ Len(outcome.list) = 1
    /\ outcome.list[1] = Issue("total", "Study", 1)

\* C15: validate raises for every template with a Relative, Fixed, Prayer or
\* duration-form PrayerBound event whose duration is zero or negative, with
\* an issue naming that event; an event with strictly positive duration gets
\* no such issue.
C15_PositiveDurations ==
    Validated =>
      \A k \in Positions :
         /\ NonPositive(k) => Raised /\ HasIssueNaming("positive", EventAt(k).name)
         /\ EventAt(k).duration > 0 => ~HasIssueNaming("positive", EventAt(k).name)

\* the error raised for a template with a zero-length Relative event, a
\* negative Fixed event and a zero-length duration-form PrayerBound event:
\* one issue for each of them
C15_Witness ==
    /\ Validated
    /\ Len(template.events) = 3
    /\ \E i, j, k \in Positions :
          /\ EventAt(i).kind = "relative" /\ EventAt(i).duration = 0
          /\ EventAt(j).kind = "fixed" /\ EventAt(j).duration < 0
          /\ EventAt(k).kind = "prayer_bound" /\ EventAt(k).end_ref.tag = "none"
          /\ EventAt(k).duration = 0
    /\ Raised
    /\ Len(outcome.list) = 3
    /\ \A i \in 1..3 : outcome.list[i].check = "positive"

\* the anchored Prayer placeholders of the template whose prayer is p
Anchored(p) ==
    {k \in Positions : /\ EventAt(k).kind = "prayer"
                       /\ EventAt(k).anchor # {}
                       /\ Lower(EventAt(k).prayer) = Lower(p)}

\* the time of the prayer after p in Fajr < Dhuhr < Asr < Maghrib < Isha, a
\* set, empty for Isha
NextPrayerTime(p) ==
    {schedule[PrayerLabels[i + 1]] : i \in {j \in 1..4 : PrayerLabels[j] = p}}

\* the placeholder at k lies between its prayer's time and the next one's
InsideWindow(k, p) ==
    /\ Some(EventAt(k).anchor) >= schedule[p]
    /\ \A next \in NextPrayerTime(p) :
          /\ Some(EventAt(k).anchor) < next
          /\ Some(EventAt(k).anchor) + EventAt(k).duration <= next

\* C16: an anchored Prayer placeholder gets a hard issue if its anchor is
\* earlier than the prayer's time, at or after the next prayer's time, or if
\* anchor + duration is later than the next prayer's time (Isha has no next
\* prayer); placeholders lying between the two times get none of these.
C16_AnchoredPlaceholders ==
    Validated =>
      \A p \in LabelSet :
        /\ \A k \in Anchored(p) :
              LET anchor == Some(EventAt(k).anchor)
                  name == EventAt(k).prayer
              IN /\ anchor < schedule[p] => HasIssueNaming("prayer_before", name)
                 /\ \A next \in NextPrayerTime(p) :
                       /\ anchor >= next => HasIssueNaming("prayer_next", name)
                       /\ anchor + EventAt(k).duration > next =>
                             \/ HasIssueNaming("prayer_exceeds", name)
                             \/ HasIssueNaming("prayer_next", name)
        /\ (\A k \in Anchored(p) : InsideWindow(k, p)) =>
              \A i \in 1..Len(outcome.list) :
                  (Raised /\ Lower(outcome.list[i].event) = Lower(p)) =>
                     outcome.list[i].check \notin
                        {"prayer_before", "prayer_next", "prayer_exceeds"}

\* the error raised for a Fajr placeholder anchored inside the Fajr window
\* that runs ten minutes past Dhuhr: the one issue is the exceeded window
C16_Witness ==
    /\ Validated
    /\ Len(template.events) = 1
    /\ Anchored("Fajr") = {1}
    /\ Some(EventAt(1).anchor) > schedule["Fajr"]
    /\ Some(EventAt(1).anchor) < schedule["Dhuhr"]
    /\ Some(EventAt(1).anchor) + EventAt(1).duration = schedule["Dhuhr"] + 1
    /\ Raised
    /\ outcome.list = <<Issue("prayer_exceeds", "Fajr", 0)>>

\* the event at k is a PrayerBound range, one with an end reference
IsRange(k) == EventAt(k).kind = "prayer_bound" /\ EventAt(k).end_ref.tag # "none"

\* the start _warn_relative_ranges gives the range at k: its start reference
\* when that resolves, else the cursor left by the events before it
RangeStart(k) ==
    LET resolved == ValidatorResolveRef(EventAt(k).start_ref, schedule)
        before == [template EXCEPT !.events = SubSeq(@, 1, k - 1)]
    IN IF resolved # {} THEN Some(resolved)
       ELSE WarnLoop(before, heap, schedule, FixedRefs(before, heap, schedule, 1), 1,
                     [warnings |-> <<>>, cursor |-> template.start_time]).cursor

\* the range at k has an end that resolves to a time at or before its start
Wraps(k) ==
    /\ IsRange(k)
    /\ ValidatorResolveRef(EventAt(k).end_ref, schedule) # {}
    /\ Some(ValidatorResolveRef(EventAt(k).end_ref, schedule)) <= RangeStart(k)

\* the duration _validate_total_duration gives the range at k: its end, a
\* day later when it is at or before the start, minus its start
RangeLength(k) ==
    LET end_dt == Some(ValidatorResolveRef(EventAt(k).end_ref, schedule))
    IN (IF end_dt <= RangeStart(k) THEN end_dt + DayLen ELSE end_dt) - RangeStart(k)

\* the range at k resolves to a positive duration in _validate_total_duration
\* and in _validate_prayer_bounds
ResolvesPositive(k) ==
    /\ RangeLength(k) > 0
    /\ LET resolved == ValidatorResolveRef(EventAt(k).start_ref, schedule)
           start_dt == IF resolved = {} THEN template.start_time ELSE Some(resolved)
           end_dt == Some(ValidatorResolveRef(EventAt(k).end_ref, schedule))
       IN (IF end_dt <= start_dt THEN end_dt + DayLen ELSE end_dt) - start_dt > 0

\* none of the conditions of the hard checks holds of the template, the
\* range at k left aside
RegularBut(k) ==
    /\ ~LateWake
    /\ \A i, j \in Positions : ~FixedOverlap(i, j)
    /\ \A j \in Positions : ~NonPositive(j)
    /\ CountedTotal(Len(template.events)) <= DayLen
    /\ \A p \in LabelSet : \A j \in Anchored(p) : InsideWindow(j, p)
    /\ \A j \in Positions \ {k} :
          (IsRange(j) /\ ValidatorResolveRef(EventAt(j).end_ref, schedule) # {})
             => ResolvesPositive(j)

\* what validate does with a range that is a soft finding only: no hard
\* issue rejects it, a template with no other irregularity is not rejected,
\* and the returned list has the warning naming the range
SoftOnly(k) ==
    /\ ~HasIssueNaming("range", EventAt(k).name)
    /\ ~HasIssueNaming("positive", EventAt(k).name)
    /\ RegularBut(k) => ~Raised
    /\ ~Raised =>
          \E i \in 1..Len(outcome.list) :
              outcome.list[i] = Warning("spans", EventAt(k).name, "")

\* C17 as stated: every PrayerBound range whose resolved end is at or before
\* its resolved start is a soft finding only.
C17_WrapIsWarningOnly ==
    Validated => \A k \in Positions : Wraps(k) => SoftOnly(k)

\* C17: a PrayerBound range whose resolved end is at or before its resolved
\* start, and after it once one day is added, is a soft finding only: for a
\* template with no other irregularity validate does not raise, and the
\* returned warning list has a warning naming that event.
C17_WrapWithinADay ==
    Validated =>
       \A k \in Positions : (Wraps(k) /\ ResolvesPositive(k)) => SoftOnly(k)

\* validate returning for a template that is a Fixed event followed by a
\* range which starts where that event ends and ends earlier in the day
C17_Witness ==
    /\ Validated
    /\ Len(template.events) = 2
    /\ EventAt(1).kind = "fixed"
    /\ EventAt(2).start_ref.tag = "none"
    /\ Wraps(2)
    /\ ResolvesPositive(2)
    /\ RangeStart(2) > template.start_time
    /\ RegularBut(2)
    /\ outcome.kind = "return"
    /\ \E i \in 1..Len(outcome.list) :
          outcome.list[i] = Warning("spans", EventAt(2).name, "")

----------------------------------------------------------------------------
(* Properties of the qalib parser and serializer *)

\* C18: for any template t produced by parse, parse(render(t)) succeeds and
\* has the same wake time as t, the same number of events, and at every
\* position an event of the same duration.
C18_RoundTrip ==
    /\ (qpc = "failed" => parsed = <<>>)
    /\ qpc = "done" =>
          /\ parsed[2].start_time = parsed[1].start_time
          /\ Len(parsed[2].events) = Len(parsed[1].events)
          /\ \A k \in 1..Len(parsed[1].events) :
                k <= Len(parsed[2].events)
                   => parsed[2].events[k].duration = parsed[1].events[k].duration

\* the line consume is given in the step
Line == raw[lineno + 1]

\* the content of that line and its tokens
Content == StripInlineComment(Strip(Line))

Tokens == Split(Content)

\* the step consumes a line that starts with '-'
TaskStep == qpc = "task" /\ lineno' = lineno + 1

\* the step raises the given exception and leaves the events as they are
Raises(exception) ==
    /\ qpc' = "failed"
    /\ qerror' = exception
    /\ builder'.events = builder.events

\* the step adds one task at the end of the task list of the last event and
\* changes nothing else of any event
TaskAppended ==
    LET n == Len(builder.events)
    IN /\ qerror' = ""
       /\ Len(builder'.events) = n
       /\ \A k \in 1..(n - 1) : builder'.events[k] = builder.events[k]
       /\ \E task \in {builder'.events[n].tasks[Len(builder'.events[n].tasks)]} :
             builder'.events[n] = [builder.events[n] EXCEPT !.tasks = Append(@, task)]

\* the task line has a bracketed occurrence block that is not closed or
\* whose expression is rejected
BlockRejected ==
    LET body == Strip(Tail(Content))
        closing == Find(body, "]")
        expr == Strip(SubSeq(body, 2, closing - 1))
    IN /\ StartsWith(body, <<"[">>)
       /\ closing = 0 \/ (expr # <<>> /\ EvalOccurrenceExpression(expr).error # "")

\* C19 as stated: a task line raises a ParseError when no event line was
\* consumed before it, and otherwise the task is appended to the last event.
C19_TaskLines ==
    [][TaskStep =>
         IF builder.events = <<>> THEN Raises("QalibParseError") ELSE TaskAppended]_vars

\* C19: a task line raises a ParseError when no event line was consumed
\* before it; otherwise, unless its occurrence block is rejected, the task
\* is appended to the task list of the most recently declared event and the
\* task lists of all other events are unchanged.
C19_TaskOfLastEvent ==
    [][TaskStep =>
         /\ builder.events = <<>> => Raises("QalibParseError")
         /\ (builder.events # <<>> /\ ~BlockRejected) => TaskAppended]_vars

\* a text read up to a task line that follows two event lines: the task is
\* in the list of the second event and the list of the first is empty
C19_Witness ==
    /\ parsed = <<>>
    /\ lineno > 0
    /\ qpc # "failed"
    /\ StartsWith(raw[lineno], <<"-">>)
    /\ Len(builder.events) = 2
    /\ builder.events[1].tasks = <<>>
    /\ Len(builder.events[2].tasks) = 1
    /\ builder.events[2].tasks[1].label = Text("Stretch")
    /\ builder.events[2].tasks[1].total_occurrences = {5}

\* the step consumes a line whose first two tokens are time tokens
FixedStep == qpc = "fixed" /\ lineno' = lineno + 1

\* the step appends an event of the given kind whose anchor is the time of
\* the first token and whose duration is the second time minus the first, a
\* day more when that is not positive
AppendsBlock(kind) ==
    LET first == Some(ParseHhmm(Tokens[1]))
        second == Some(ParseHhmm(Tokens[2]))
        event == builder'.events[Len(builder'.events)]
    IN /\ qerror' = ""
       /\ Len(builder'.events) = Len(builder.events) + 1
       /\ event.kind = kind
       /\ event.anchor = {first}
       /\ event.duration = IF second - first > 0 THEN second - first
                            ELSE second - first + DayMinutes
       /\ event.duration > 0 /\ event.duration <= DayMinutes

\* C20 as stated: every line whose first two tokens are time tokens parses
\* to a Fixed event.
C20_FixedLines ==
    [][FixedStep =>
         /\ ParseHhmm(Tokens[1]) # {} /\ ParseHhmm(Tokens[2]) # {}
         /\ AppendsBlock("fixed")]_vars

\* C20: a line whose first two tokens are time tokens of valid clock times
\* parses to a Fixed event, or to a Prayer placeholder when its name starts
\* with a prayer word, whose anchor is the first time and whose duration is
\* second minus first, wrapped to the next day when not positive, so the
\* duration lies in (0, 24h].
C20_FixedOrPrayerBlock ==
    [][(FixedStep /\ ParseHhmm(Tokens[1]) # {} /\ ParseHhmm(Tokens[2]) # {}) =>
         IF Len(Tokens) >= 3 /\ LowerText(Tokens[3]) \in PrayerWords
         THEN AppendsBlock("prayer") ELSE AppendsBlock("fixed")]_vars

\* a text read up to its second block line: '7:00 07:45 Breakfast' gave a
\* Fixed event at 07:00 of 45 minutes, '23:30 00.15 Day' one at 23:30 of 45
\* minutes that ends on the next day
C20_Witness ==
    /\ parsed = <<>>
    /\ qpc # "failed"
    /\ Len(builder.events) = 2
    /\ builder.events[1] = QFixed(Text("Breakfast"), 45, 7 * 60)
    /\ builder.events[2] = QFixed(Text("Day"), 45, 23 * 60 + 30)

\* the step consumes a line of one of the three forms that build Relative
\* or Fixed events, without an exception
BlockStep ==
    /\ qpc \in {"relative", "fixed", "fixed_duration"}
    /\ lineno' = lineno + 1
    /\ qerror' = ""

\* the first word of the event name of that line, <<>> when it has no name
NameWord ==
    LET k == IF qpc = "relative" THEN 2 ELSE 3
    IN IF Len(Tokens) >= k THEN Tokens[k] ELSE <<>>

\* C21 as stated: in each of the three line forms '<duration> name',
\* 'HH:MM HH:MM name' and 'HH:MM +duration name', a name whose first word
\* is a recognized prayer word gives a Prayer event with the normalized
\* label, the duration of the form, and the anchor of the two fixed forms.
C21_PrayerPromotion ==
    [][(BlockStep /\ LowerText(NameWord) \in PrayerWords) =>
         LET event == builder'.events[Len(builder'.events)]
         IN /\ Len(builder'.events) = Len(builder.events) + 1
            /\ event.kind = "prayer"
            /\ event.prayer = NormalizePrayerToken(NameWord)
            /\ event.anchor = IF qpc = "relative" THEN {} ELSE ParseHhmm(Tokens[1])
            /\ event.duration =
                  CASE qpc = "relative" -> DurationTokenToTimedelta(Tokens[1])
                    [] qpc = "fixed" -> DurationBetween(Some(ParseHhmm(Tokens[1])),
                                                        Some(ParseHhmm(Tokens[2])))
                    [] qpc = "fixed_duration" ->
                          DurationTokenToTimedelta(Tail(Tokens[2]))]_vars

\* the expression between the brackets of the task line of the step, <<>>
\* when there is none
Expression ==
    LET body == Strip(Tail(Content))
        closing == Find(body, "]")
    IN IF StartsWith(body, <<"[">>) /\ closing # 0
       THEN Strip(SubSeq(body, 2, closing - 1)) ELSE <<>>

\* the step consumes a task line with an occurrence expression, after an
\* event line
CountStep == TaskStep /\ builder.events # <<>> /\ Expression # <<>>

\* the count stored in the task the step appended
StoredCount ==
    LET tasks == builder'.events[Len(builder'.events)].tasks
    IN Some(tasks[Len(tasks)].total_occurrences)

\* C22 as stated: an occurrence expression is accepted only when it
\* evaluates to a positive integer, which is then the stored
\* total_occurrences (never 0, never a truncated quotient); every other
\* expression makes parse raise a ParseError.
C22_PositiveCount ==
    [][CountStep =>
         IF qerror' = ""
         THEN /\ TaskAppended
              /\ StoredCount > 0
              /\ (Find(Expression, "/") # 0 /\ FindPair(Expression, "/") = 0) =>
                    StoredCount * ToInt(Strip(After(Expression, Find(Expression, "/"))))
                       = ToInt(Strip(Before(Expression, Find(Expression, "/"))))
         ELSE Raises("QalibParseError")]_vars

\* the key of every provider, place and day of the calls
KeyOf == [place \in CachePlaces, d \in CacheDays |-> Key(place.provider, d, place.location)]

\* the days for which the dict c holds an entry of the bucket of the given
\* provider and place
Held(c, place) == {d \in CacheDays : DictGet(c, KeyOf[place, d]) # {}}

\* the provider and place of a call
PlaceOf(args) == [provider |-> args.provider, location |-> args.location]

\* the days held in the bucket of the last call that are later than its day
LaterHeld == {d \in Held(cache, PlaceOf(call)) : Later(d, call.day)}

\* C23 as stated: after put(provider, day, location, schedule) returns,
\* get(provider, day, location) returns the schedule that was put, for any
\* day and any prior content of the cache.
C23_PutThenGet ==
    call.op = "put" =>
        Get(cache, call.provider, call.day, call.location) = call.schedule

\* C23: after put(provider, day, location, schedule) returns,
\* get(provider, day, location) returns the schedule that was put, for any
\* prior content of the cache and any day that is among the max_days most
\* recent days the cache then holds for that provider and place.
C23_PutThenGetRecent ==
    (call.op = "put" /\ Cardinality(LaterHeld) < max_days) =>
        Get(cache, call.provider, call.day, call.location) = call.schedule

\* a put whose entry is kept next to a later day of its bucket
C23_Witness ==
    /\ call.op = "put"
    /\ LaterHeld # {}
    /\ Get(cache, call.provider, call.day, call.location) = call.schedule

\* the m latest of a set of days
MostRecent(days, m) == {d \in days : Cardinality({e \in days : Later(e, d)}) < m}

\* the two places share a bucket: their keys for a day are the same
SameBucket(a, b) ==
    LET d == CHOOSE day \in CacheDays : TRUE
    IN KeyOf[a, d] = KeyOf[b, d]

\* every bucket holds at most max_days entries
AtMostMaxDays ==
    \A place \in CachePlaces : Cardinality(Held(cache, place)) <= max_days

\* a day with max_days or more later days held in its bucket is not held,
\* and a get of it returned nothing
OlderDaysAbsent ==
    /\ \A place \in CachePlaces, d \in CacheDays :
          Cardinality({e \in Held(cache, place) : Later(e, d)}) >= max_days
             => Get(cache, place.provider, d, place.location) = {}
    /\ (call.op = "get" /\ Cardinality(LaterHeld) >= max_days) => call.result = {}

\* a put leaves in every bucket the max_days latest of the days it held
\* before, with the day put when it is the bucket of the put, and leaves
\* the entries of the other days as they were
PutKeepsMostRecent ==
    call'.op = "put" =>
        \A place \in CachePlaces :
           LET before == Held(cache, place)
               after == Held(cache', place)
               put == IF SameBucket(place, PlaceOf(call')) THEN {call'.day} ELSE {}
           IN /\ after = MostRecent(before \cup put, max_days)
              /\ \A d \in after \ put :
                    DictGet(cache', KeyOf[place, d]) = DictGet(cache, KeyOf[place, d])

\* C24: after any sequence of put calls every (provider, latitude,
\* longitude) bucket of the cache holds at most max_days entries, they are
\* the entries with the most recent days of that bucket, and get for an
\* older day of the same bucket returns nothing.
C24_MostRecentKept ==
    [](AtMostMaxDays /\ OlderDaysAbsent) /\ [][PutKeepsMostRecent]_vars

\* a put of a day older than the two days its bucket holds: it is dropped
C24_Witness ==
    /\ call.op = "put"
    /\ max_days = 2
    /\ Cardinality(LaterHeld) = 2
    /\ Get(cache, call.provider, call.day, call.location) = {}

\* C25: for every template and prayer schedule for which validate raises
\* no ValidationError, the plan build_plan returns is sorted by start time
\* and has no two overlapping items.
C25_ValidatedPlanOrdered ==
    (Done /\ ~Raised) =>
        /\ \A k \in 1..Len(plan) - 1 : plan[k].start <= plan[k + 1].start
        /\ \A a, b \in 1..Len(plan) : a # b => Disjoint(plan[a], plan[b])

\* the main loop is about to flush and then process an event
AtFlush == pc = "loop" /\ ev < Len(template.events)

\* the flush as the statement describes it: the next pending slot is
\* scheduled while its start is at or before the position the cursor has at
\* that moment
RECURSIVE FlushByCursor(_)
FlushByCursor(s) ==
    IF s.err \/ PeekPrayer(s) = {} \/ Some(PeekPrayer(s)).start > s.cursor
    THEN s
    ELSE FlushByCursor(PopAndSchedule(s))

\* C26 as stated: in the flush before every template event the next
\* pending slot is scheduled if and only if its start is at or before the
\* cursor's position at the moment it is examined, the position being read
\* again after each slot scheduled; after the flush no pending slot
\* starts at or before the cursor's position.
C26_FlushByCursor ==
    AtFlush =>
        /\ Flushed = FlushByCursor(Local)
        /\ \A slot \in PeekPrayer(Flushed) : slot.start > Flushed.cursor

\* a step of build_plan that places items and processes no Fixed event:
\* the flush and a Relative, Prayer or PrayerBound event, a round of the
\* relative loop, or the prayers left after the last event
PlacingStep == pc \in {"loop", "relative"} /\ ~AtEvent("fixed")

\* C27 as stated: during build_plan the cursor position never moves
\* backward except when a Fixed event makes it jump to its anchor; placing
\* a prayer slot, a Relative chunk, a Prayer placeholder or a PrayerBound
\* event never lowers the cursor position.
C27_CursorMonotone ==
    [][PlacingStep => cursor' >= cursor]_vars

\* the template holds Relative events only, or no event
RelativeOnly == EventsOfKind("relative") = 1..Len(template.events)

\* C28: in the plan of a template that contains only Relative events (or
\* no events) every one of the five prayer entries starts exactly at that
\* prayer's time in the prayer schedule: a prayer the template does not
\* mention is never scheduled later than its natural time.
C28_NaturalTimes ==
    (Done /\ RelativeOnly) =>
        \A p \in LabelSet :
           /\ EntriesOf(p) # {}
           /\ \A k \in EntriesOf(p) : plan[k].start = schedule[p]

\* a returned plan of Relative events in which a prayer stands between two
\* chunks of one event, and another prayer was due before the wake-up time
C28_Witness ==
    /\ Done
    /\ RelativeOnly
    /\ template.start_time > schedule["Fajr"]
    /\ \E k \in 2..Len(plan) - 1 :
          /\ IsPrayerItem(plan[k])
          /\ ~IsPrayerItem(plan[k - 1])
          /\ ~IsPrayerItem(plan[k + 1])
          /\ heap[plan[k - 1].event].name = heap[plan[k + 1].event].name

\* the positions of the plan holding the chunks of the template's k-th event
ChunksOf(k) ==
    {i \in 1..Len(plan) : heap[plan[i].event].kind = "relative"
                             /\ heap[plan[i].event].name = heap[template.events[k]].name}

\* the total length of the chunks of the k-th event among the first n items
RECURSIVE ChunkTotal(_, _)
ChunkTotal(k, n) ==
    IF n = 0 THEN 0
    ELSE ChunkTotal(k, n - 1) + (IF n \in ChunksOf(k) THEN plan[n].end - plan[n].start ELSE 0)

\* while a Relative event is being placed its chunks and what remains make
\* up its duration, and in the returned plan the chunks of a Relative event
\* of positive duration are one or more and sum to the duration
ChunksSumToDuration ==
    /\ pc = "relative" =>
          ChunkTotal(ev + 1, Len(plan)) + remaining = heap[template.events[ev + 1]].duration
    /\ Done =>
          \A k \in EventsOfKind("relative") :
             heap[template.events[k]].duration > 0 =>
                /\ ChunksOf(k) # {}
                /\ ChunkTotal(k, Len(plan)) = heap[template.events[k]].duration
                /\ \A i \in ChunksOf(k) :
                      heap[plan[i].event].duration = plan[i].end - plan[i].start

\* a round of the relative loop that places a chunk: the chunk ends no
\* later than the start of the slot pending when it is placed, and when it
\* ends at that start the prayer of the slot follows it at once
ChunkBeforePrayer ==
    (pc = "relative" /\ pc' # "error" /\ Len(plan') > Len(plan)
       /\ heap'[plan'[Len(plan) + 1].event].kind = "relative") =>
        LET chunk == plan'[Len(plan) + 1]
        IN /\ chunk.start = cursor
           /\ chunk.end > chunk.start
           /\ remaining' = remaining - (chunk.end - chunk.start)
           /\ \A slot \in PeekPrayer(Local) :
                 /\ chunk.end <= slot.start
                 /\ IF chunk.end = slot.start
                    THEN /\ Len(plan') = Len(plan) + 2
                         /\ heap'[plan'[Len(plan) + 2].event].kind = "prayer"
                         /\ heap'[plan'[Len(plan) + 2].event].prayer = slot.label
                         /\ plan'[Len(plan) + 2].start = chunk.end
                    ELSE Len(plan') = Len(plan) + 1
           /\ PeekPrayer(Local) = {} => Len(plan') = Len(plan) + 1 /\ remaining' = 0

\* C29: a Relative event of positive duration D is placed as one or more
\* chunks whose durations sum to exactly D; when a chunk is placed its end
\* is not later than the start of the next pending prayer slot, and a chunk
\* that ends exactly at that slot's start is immediately followed by that
\* prayer.
C29_ChunksAroundPrayers ==
    []ChunksSumToDuration /\ [][ChunkBeforePrayer]_vars

\* a returned plan in which a Relative event of positive duration lies in
\* two chunks or more, one of them ending where the prayer after it starts
C29_Witness ==
    /\ Done
    /\ \E k \in EventsOfKind("relative") :
          /\ Cardinality(ChunksOf(k)) >= 2
          /\ \E i \in ChunksOf(k) :
                /\ i < Len(plan)
                /\ IsPrayerItem(plan[i + 1])
                /\ plan[i + 1].start = plan[i].end
          /\ \E i \in ChunksOf(k) : i = Len(plan) \/ ~IsPrayerItem(plan[i + 1])

\* the PrayerBound event the main loop is about to process
BoundEvent == heap[template.events[ev + 1]]

\* its references resolve: an explicit start_ref and an explicit end_ref
\* name a time or a known prayer, and without end_ref there is a duration
Resolves ==
    /\ BoundEvent.start_ref.tag # "none" => ResolveRef(BoundEvent.start_ref, schedule) # {}
    /\ IF BoundEvent.end_ref.tag # "none"
       THEN ResolveRef(BoundEvent.end_ref, schedule) # {}
       ELSE BoundEvent.duration > 0

\* the start the statement gives the item: the resolved start_ref, or the
\* cursor position after the flush
BoundStart ==
    IF BoundEvent.start_ref.tag # "none"
    THEN Some(ResolveRef(BoundEvent.start_ref, schedule)) ELSE Flushed.cursor

\* the end the statement gives the item, a day added when it is at or before
\* the start
BoundEnd ==
    LET end0 == IF BoundEvent.end_ref.tag # "none"
                THEN Some(ResolveRef(BoundEvent.end_ref, schedule))
                ELSE BoundStart + BoundEvent.duration
    IN IF end0 <= BoundStart THEN end0 + DayLen ELSE end0

----------------------------------------------------------------------------
(* References that do not resolve *)

\* a reference that names a prayer, with or without an offset, and has no
\* timestamp in the schedule
Unresolvable(ref) ==
    ref.tag \in {"prayer", "offset"} /\ ResolveRef(ref, schedule) = {}

\* C31: when a reference of a PrayerBound event cannot be resolved, the
\* scheduler takes the current cursor position as its timestamp and
\* schedules the event: one item of the event is appended, starting at the
\* cursor when it is start_ref that does not resolve.
C31_UnresolvedFallsBackToCursor ==
    [][(/\ AtEvent("prayer_bound")
        /\ pc' # "error"
        /\ Unresolvable(BoundEvent.start_ref) \/ Unresolvable(BoundEvent.end_ref)) =>
         /\ Len(plan') = Len(Flushed.plan) + 1
         /\ heap'[plan'[Len(plan')].event].name = BoundEvent.name
         /\ Unresolvable(BoundEvent.start_ref) =>
                plan'[Len(plan')].start = Flushed.cursor]_vars

----------------------------------------------------------------------------
(* Backward anchors and the validator *)

\* the main loop is about to process a Fixed event that has events before it
\* and whose anchor is earlier than the time those events have reached
BackwardAnchor ==
    /\ AtEvent("fixed")
    /\ ev >= 1
    /\ Some(heap[template.events[ev + 1]].anchor) < cursor

\* C32: validate raises a hard issue for every template in which a Fixed
\* event's anchor is earlier than the time already reached by the events
\* that precede it.
C32_BackwardAnchorRejected ==
    BackwardAnchor => Raised

----------------------------------------------------------------------------
(* Warnings for ranges that overlap anchored events *)

\* event k is a PrayerBound range whose end reference resolves; the range
\* is [RangeStart(k), RangeEnd(k))
RangeAt(k) ==
    IsRange(k) /\ ValidatorResolveRef(EventAt(k).end_ref, schedule) # {}

RangeEnd(k) == RangeStart(k) + RangeLength(k)

\* event j is a Fixed event or a Prayer event with an anchor
AnchoredAt(j) ==
    \/ EventAt(j).kind = "fixed"
    \/ EventAt(j).kind = "prayer" /\ EventAt(j).anchor # {}

\* [anchor, anchor + duration) of event j and [start, end) of range k have a
\* moment in common
RangeOverlaps(k, j) ==
    /\ Some(EventAt(j).anchor) < RangeEnd(k)
    /\ RangeStart(k) < Some(EventAt(j).anchor) + EventAt(j).duration

\* C33: when validate returns, its warnings name every PrayerBound range
\* whose interval [start, end) overlaps the interval [anchor, anchor +
\* duration) of a Fixed or anchored Prayer event elsewhere in the template,
\* also when that event starts before the range and ends inside it.
C33_OverlapWarned ==
    outcome.kind = "return" =>
        \A k \in 1..Len(template.events) :
            (/\ RangeAt(k)
             /\ \E j \in 1..Len(template.events) :
                    j # k /\ AnchoredAt(j) /\ RangeOverlaps(k, j)) =>
                \E w \in 1..Len(outcome.list) :
                    /\ outcome.list[w].check = "overlaps"
                    /\ outcome.list[w].event = EventAt(k).name

----------------------------------------------------------------------------
(* The wake-up line *)

\* C34: a line that is a single time token sets the wake time only while no
\* event has been started: once an event line has been consumed, consuming
\* a line leaves start_time as it is.
C34_WakeOnlyBeforeEvents ==
    [][(lineno' = lineno + 1 /\ builder.events # <<>>) =>
          builder'.start_time = builder.start_time]_vars

----------------------------------------------------------------------------
(* Items and the durations of their events *)

\* C35: every item of a returned plan ends at its start plus the duration
\* of its event, also a prayer entry that a later placeholder has corrected
\* in place.
C35_EndIsStartPlusDuration ==
    Done => \A i \in 1..Len(plan) :
               plan[i].end = plan[i].start + heap[plan[i].event].duration

----------------------------------------------------------------------------
(* The length of PrayerBound items *)

\* C36 as stated: every PrayerBound item placed in a plan ends strictly
\* after it starts, offsets of up to MaxOffset that carry a reference to the
\* day before or after included.
C36_BoundEndsAfterStart ==
    \A i \in 1..Len(plan) :
        heap[plan[i].event].kind = "prayer_bound" => plan[i].end > plan[i].start

\* the end reference of item i resolves to a time less than a day before
\* the item's start, or later (an item without a resolved end is placed by
\* its duration)
EndWithinADay(i) ==
    LET end_dt == ResolveRef(heap[plan[i].event].end_ref, schedule)
    IN end_dt # {} => Some(end_dt) > plan[i].start - DayLen

\* C36: every PrayerBound item placed in a plan whose resolved end is later
\* than its start minus one day ends strictly after it starts, offsets of up
\* to MaxOffset that carry a reference to the day before or after included.
C36_BoundEndsAfterStartWithinADay ==
    \A i \in 1..Len(plan) :
        (heap[plan[i].event].kind = "prayer_bound" /\ EndWithinADay(i)) =>
            plan[i].end > plan[i].start

\* a range from the largest offset before Fajr, a time of the day before,
\* to Dhuhr
C36_Witness ==
    /\ Done
    /\ \E i \in 1..Len(plan) :
          /\ heap[plan[i].event].kind = "prayer_bound"
          /\ heap[plan[i].event].start_ref = OffsetRef("Fajr", -MaxOffset)
          /\ plan[i].start < 0
          /\ plan[i].end = schedule["Dhuhr"]
          /\ plan[i].end > plan[i].start

----------------------------------------------------------------------------
(* The validator's and the scheduler's length of a range *)

\* C37: the duration the validator adds to the day's total for a PrayerBound
\* range (end_ref present) equals end - start of the item the scheduler
\* places for that event, with start_ref explicit or absent.
C37_SameRangeDuration ==
    [][(/\ AtEvent("prayer_bound")
        /\ pc' # "error"
        /\ BoundEvent.end_ref.tag # "none"
        /\ Len(plan') = Len(Flushed.plan) + 1) =>
          plan'[Len(plan')].end - plan'[Len(plan')].start =
             CountedTotal(ev + 1) - CountedTotal(ev)]_vars

----------------------------------------------------------------------------
(* The frame of an in-place correction *)

\* the main loop is at a Prayer placeholder whose prayer is in the plan once
\* the flush at the head of the loop body is done
AtCorrection ==
    /\ AtEvent("prayer")
    /\ ~Flushed.err
    /\ ScheduledPrayers(Flushed, Lower(BoundEvent.prayer)) # {}

\* the entry the backward search finds
Corrected == Max(ScheduledPrayers(Flushed, Lower(BoundEvent.prayer)))

\* the scheduler's state after the step
LocalAfter ==
    [cursor |-> cursor', plan |-> plan', slots |-> prayer_slots',
     idx |-> prayer_index', heap |-> heap', err |-> FALSE]

\* C38: processing a Prayer placeholder whose prayer is already in the plan
\* changes the start, end and duration of that one entry only: no item is
\* added or removed, the other items and all other events are as before,
\* the cursor and the pending slots are as before, and processing the
\* placeholder again changes nothing.
C38_CorrectionFrame ==
    [][AtCorrection =>
         /\ Len(plan') = Len(Flushed.plan)
         /\ plan'[Corrected].event = Flushed.plan[Corrected].event
         /\ \A j \in 1..Len(plan') : j # Corrected => plan'[j] = Flushed.plan[j]
         /\ Len(heap') = Len(Flushed.heap)
         /\ \A a \in 1..Len(heap') :
               a # Flushed.plan[Corrected].event => heap'[a] = Flushed.heap[a]
         /\ heap'[Flushed.plan[Corrected].event] =
               [Flushed.heap[Flushed.plan[Corrected].event] EXCEPT
                   !.duration = heap'[Flushed.plan[Corrected].event].duration]
         /\ cursor' = Flushed.cursor
         /\ prayer_slots' = Flushed.slots
         /\ prayer_index' = Flushed.idx
         /\ SchedulePrayerEvent(LocalAfter, BoundEvent) = LocalAfter]_vars

\* a Fajr placeholder with an anchor and a duration processed after the
\* flush has placed Fajr: the entry has the placeholder's times and the
\* cursor is where the flush left it, before the entry's end
C38_Witness ==
    /\ pc = "loop"
    /\ ev >= 1
    /\ heap[template.events[ev]].kind = "prayer"
    /\ heap[template.events[ev]].prayer = "Fajr"
    /\ heap[template.events[ev]].anchor = {31}
    /\ heap[template.events[ev]].duration = 2
    /\ plan # <<>>
    /\ heap[plan[Len(plan)].event].prayer = "Fajr"
    /\ plan[Len(plan)].start = 31
    /\ plan[Len(plan)].end = 33
    /\ heap[plan[Len(plan)].event].duration = 2
    /\ cursor < 33

----------------------------------------------------------------------------
(* Variants and anchors through render and parse *)

\* C39: every event of parse(render(t)) has the variant and the anchor of
\* the event at the same position of t: a Fixed event stays a Fixed event
\* at its anchor, an anchored Prayer event a Prayer event with that anchor.
C39_VariantAndAnchorKept ==
    qpc = "done" =>
       \A k \in 1..Len(parsed[1].events) :
           k <= Len(parsed[2].events) =>
              /\ parsed[2].events[k].kind = parsed[1].events[k].kind
              /\ parsed[2].events[k].anchor = parsed[1].events[k].anchor

----------------------------------------------------------------------------
(* The file after concurrent puts *)

\* both calls of put have returned and every queued write has finished
Quiescent ==
    /\ \A t \in Threads : thread[t].pc = "returned"
    /\ Queued = {}

\* C40: when put has been called from two threads, both calls have returned
\* and all queued writes have finished, the cache file holds every entry of
\* the in-memory cache.
C40_FileHoldsCache ==
    Quiescent => /\ disk # {}
                 /\ \A entry \in cache : entry \in Loads(Some(disk))

====
